---------------------------- MODULE Spec2Model ----------------------------
(***************************************************************************)
(* MediLens web client: the upload dialog (Modal.tsx), the webhook chat    *)
(* page without persistence (ChatbotPage.tsx, prefix A_) and the chat page *)
(* with the persistent session store (part_003 + lib/supabase.ts, prefix   *)
(* B_).  Strings are TLA+ strings; a file is what the browser hands to the *)
(* dialog: name, declared MIME type, byte size and the text a read of it   *)
(* yields (decoded bytes for text and PDF files, recognised text for       *)
(* images).                                                                *)
(***************************************************************************)
EXTENDS Integers, Sequences, FiniteSets, TLC

VARIABLES
    \* ---- upload dialog (Modal.tsx) ----
    uploadError,        \* useState('')            Modal.tsx:21
    isProcessing,       \* useState(false)         Modal.tsx:22
    modalExtractedText, \* useState('') extractedText, Modal.tsx:23
    uploadedFile,       \* useState<File|null>     Modal.tsx:24
    extractions,        \* extractTextFromFile promises not yet settled
    nUploads,           \* number of files handed to handleFileValidation
    offered,            \* history: files handed to handleFileValidation
    extractCalls,       \* history: files extractTextFromFile was invoked on
    produced,           \* history: settled extractions [file, ok, value]
    lastOp,             \* history: the operation that ran last, with its input
    uploadTab,          \* useState<'file'|'url'>('file')
    urlInput,           \* useState('')            Modal.tsx:20
    emitted,            \* history: what the dialog did outside itself
    \* ---- chat page (ChatbotPage.tsx and part_003) ----
    page,               \* "A": ChatbotPage.tsx, "B": part_003, "none"
    env,                \* configuration and props, fixed for a page's life
    messages,           \* useState<Message[]>([])
    inputMessage,       \* useState('')
    isLoading,          \* useState(false)
    reqs,               \* the sends made so far, each at its await
    showUploadModal,    \* A: useState(false)      ChatbotPage.tsx:26
    currentSessionId,   \* B: useState(sessionId || null), 0 is null
    extractedText,      \* B: useState(initialExtractedText)
    chatSessions,       \* B: useState<ChatSession[]>([]), the session ids
    timer,              \* B: the setTimeout(handleSendMessage, 1000)
    ops,                \* B: session operations, each at its await
    nSessions,          \* B: sessions created so far (ids are 1..nSessions)
    nProvided,          \* B: history: extracted texts handed to the page
    dbSessions,         \* store: ids of the rows of chat_sessions
    dbMessages,         \* store: rows of chat_messages in created_at order
    \* ---- App (part_000) ----
    app,                \* the App component: configuration and state
    \* ---- the reply of one 2xx answer ----
    fmt,                \* body, parsed value and reply
    \* ---- the store with several users ----
    db                  \* tables, clock and the last operation

uploadVars == <<uploadError, isProcessing, modalExtractedText, uploadedFile,
                extractions, nUploads, offered, extractCalls, produced, lastOp,
                uploadTab, urlInput, emitted>>

pageVars == <<messages, inputMessage, isLoading, reqs>>

sessionVars == <<currentSessionId, extractedText, chatSessions, timer, ops,
                 nSessions, nProvided>>

storeVars == <<dbSessions, dbMessages>>

chatCore == <<page, env, pageVars, showUploadModal, sessionVars, storeVars>>

sideVars == <<app, fmt, db>>

chatVars == <<chatCore, sideVars>>

vars == <<uploadVars, chatVars>>

-----------------------------------------------------------------------------
(* Bounds of the model *)

MaxUploads == 2

MaxActs == 3

MaxExtracts == 1

MaxUsers == 2

MaxAuthEvents == 2

MaxFields == 2

MaxStoreOps == 4

TicksPerTimeout == 1

-----------------------------------------------------------------------------
(* Strings, as JavaScript treats them *)

\* White space String.prototype.trim removes (the part expressible here).
WhiteSpace == {" ", "\t", "\n", "\r", "\f"}

\* Characters outside [\x20-\x7E\n] (the part expressible here).
NonPrintable == {"\t", "\r", "\f"}

RECURSIVE TrimStart(_)
TrimStart(s) ==
    IF s = "" THEN ""
    ELSE IF Head(s) \in WhiteSpace THEN TrimStart(Tail(s)) ELSE s

RECURSIVE TrimEnd(_)
TrimEnd(s) ==
    IF s = "" THEN ""
    ELSE IF SubSeq(s, Len(s), Len(s)) \in WhiteSpace
         THEN TrimEnd(SubSeq(s, 1, Len(s) - 1))
         ELSE s

Trim(s) == TrimEnd(TrimStart(s))

StartsWith(s, p) == Len(s) >= Len(p) /\ SubSeq(s, 1, Len(p)) = p

\* s.indexOf(p), counted from 1; 0 when p does not occur in s.
IndexOf(s, p) ==
    LET at == {i \in 1..(Len(s) - Len(p) + 1) : SubSeq(s, i, i + Len(p) - 1) = p}
    IN  IF at = {} THEN 0 ELSE CHOOSE i \in at : \A j \in at : i <= j

\* s.includes(p)
Contains(s, p) == IndexOf(s, p) # 0

Digit(n) == SubSeq("0123456789", n + 1, n + 1)

RECURSIVE NatToString(_)
NatToString(n) ==
    IF n < 10 THEN Digit(n) ELSE NatToString(n \div 10) \o Digit(n % 10)

LowerCase == "abcdefghijklmnopqrstuvwxyz"
UpperCase == "ABCDEFGHIJKLMNOPQRSTUVWXYZ"

\* text.replace(/[^\x20-\x7E\n]/g, ' ')
RECURSIVE ReplaceNonPrintable(_)
ReplaceNonPrintable(s) ==
    IF s = "" THEN ""
    ELSE (IF Head(s) \in NonPrintable THEN " " ELSE Head(s))
         \o ReplaceNonPrintable(Tail(s))

RECURSIVE Repeat(_, _)
Repeat(s, n) == IF n = 0 THEN "" ELSE s \o Repeat(s, n - 1)

-----------------------------------------------------------------------------
(* Upload dialog: Modal.tsx *)

MAX_FILE_SIZE == 10 * 1024 * 1024

SUPPORTED_FILE_TYPES ==
    {"application/pdf", "text/plain", "image/jpeg", "image/jpg", "image/png",
     "image/gif", "image/bmp", "image/webp"}

File(n, t, sz, tx) == [name |-> n, type |-> t, size |-> sz, text |-> tx]

NoFile == File("", "", 0, "")

\* The files offered to the dialog.  For the files above the size limit the
\* text stands for content that is never written out in full.
Files ==
    { File("empty.txt", "text/plain", 0, ""),
      File("hello.txt", "text/plain", 5, "hello"),
      File("notes.txt", "text/plain", 6, " a\tb \n"),
      File("big.txt", "text/plain", MAX_FILE_SIZE + 1, "hello"),
      File("rx.pdf", "application/pdf", 53, "\t" \o Repeat("x", 51) \o "\f"),
      File("scan.pdf", "application/pdf", 52, "\t" \o Repeat("x", 50) \o "\f"),
      File("big.pdf", "application/pdf", MAX_FILE_SIZE + 1, Repeat("x", 51)),
      File("rx.png", "image/png", 2048, " Take 1 daily \n"),
      File("blank.png", "image/png", 2048, " \n"),
      File("edge.jpg", "image/jpeg", MAX_FILE_SIZE, "Rx"),
      File("big.gif", "image/gif", MAX_FILE_SIZE + 1, "Rx"),
      File("rx.tiff", "image/tiff", 2048, "Rx"),
      File("rx.zip", "application/zip", 2048, "PK"),
      File("big.zip", "application/zip", MAX_FILE_SIZE + 1, "PK"),
      File("noext", "", 5, "hello") }

\* How a read settles: the FileReader / recognizer succeeds or fails.
ReadOutcomes == {"ok", "error"}

Resolve(v) == [ok |-> TRUE, value |-> v]
Reject(m) == [ok |-> FALSE, value |-> m]

\* Mutant: the text of a plain-text file is trimmed.
extractTextFromFile_TrimsText(file, io) ==
    IF file.type = "text/plain" /\ io = "ok" THEN Resolve(Trim(file.text))
    ELSE Reject("Failed to read text file")

\* Mutant: the recognized text of an image is returned as it is.
extractTextFromFile_RawOcr(file, io) ==
    IF StartsWith(file.type, "image/") /\ io = "ok" THEN Resolve(Trim(file.text))
    ELSE Reject("Failed to extract text from image: worker failed")

\* extractTextFromFile, by file type; io is how the read settles.
extractTextFromFile(file, io) ==
    IF file.type = "text/plain" THEN
        IF io = "ok" THEN Resolve(file.text)
        ELSE Reject("Failed to read text file")
    ELSE IF file.type = "application/pdf" THEN
        IF io = "ok" THEN
            LET stripped == Trim(ReplaceNonPrintable(file.text))
            IN  IF Len(stripped) > 50
                THEN Resolve("[PDF Content Extracted from: " \o file.name
                             \o "]\n\n" \o stripped)
                ELSE Resolve("[PDF file: " \o file.name \o "]\n\nNote: This PDF may contain images or complex formatting. For better text extraction, please convert to image format or use a specialized PDF tool.")
        ELSE Reject("Failed to read PDF file")
    ELSE IF StartsWith(file.type, "image/") THEN
        IF io = "ok" THEN
            IF Trim(file.text) # ""
            THEN Resolve("[OCR Text Extracted from: " \o file.name
                         \o "]\n\n" \o Trim(file.text))
            ELSE Resolve("[Image processed: " \o file.name \o "]\n\nNo readable text was found in this image. The image may be too blurry, have poor contrast, or contain no text content.")
        ELSE Reject("Failed to extract text from image: worker failed")
    ELSE Reject("Unsupported file type for text extraction")

TypeError == "Supported file types: PDF, TXT, JPG, PNG, GIF, BMP, WebP"
SizeError == "File size must be less than 10MB"

\* Mutants of the validator: one check left out.
ValidateFile_NoTypeCheck(file) ==
    IF file.size > MAX_FILE_SIZE THEN SizeError ELSE ""

ValidateFile_NoSizeCheck(file) ==
    IF file.type \notin SUPPORTED_FILE_TYPES THEN TypeError ELSE ""

\* The two checks of handleFileValidation: the error it sets, "" when the
\* file passes.
ValidateFile(file) ==
    IF file.type \notin SUPPORTED_FILE_TYPES THEN TypeError
    ELSE IF file.size > MAX_FILE_SIZE THEN SizeError
    ELSE ""

\* handleDrop / handleFileSelect followed by handleFileValidation up to its
\* await: the drop zone is rendered while no text is shown and nothing is
\* being processed.
handleFileValidation(file) ==
    /\ nUploads < MaxUploads
    /\ uploadTab = "file"
    /\ modalExtractedText = "" /\ ~isProcessing
    /\ nUploads' = nUploads + 1
    /\ offered' = offered \cup {file}
    /\ lastOp' = [op |-> "select", file |-> file]
    /\ UNCHANGED <<uploadTab, urlInput, emitted, chatVars>>
    /\ IF ValidateFile(file) # ""
       THEN /\ uploadError' = ValidateFile(file)
            /\ UNCHANGED <<isProcessing, modalExtractedText, uploadedFile,
                           extractions, extractCalls, produced>>
       ELSE /\ uploadError' = ""
            /\ uploadedFile' = file
            /\ isProcessing' = TRUE
            /\ extractions' = extractions \cup {file}
            /\ extractCalls' = extractCalls \cup {file}
            /\ UNCHANGED <<modalExtractedText, produced>>

\* The awaited extraction settles: the rest of handleFileValidation.
ExtractionSettles(file, io) ==
    /\ file \in extractions
    /\ LET r == extractTextFromFile(file, io)
       IN  /\ produced' = produced \cup {[file |-> file, ok |-> r.ok, value |-> r.value]}
           /\ IF r.ok
              THEN /\ modalExtractedText' = r.value
                   /\ UNCHANGED <<uploadError, uploadedFile>>
              ELSE /\ uploadError' = "Failed to process file: " \o r.value
                   /\ uploadedFile' = NoFile
                   /\ UNCHANGED modalExtractedText
    /\ isProcessing' = FALSE
    /\ extractions' = extractions \ {file}
    /\ lastOp' = [op |-> "settle", file |-> file]
    /\ UNCHANGED <<nUploads, offered, extractCalls, uploadTab, urlInput, emitted,
                   chatVars>>

\* The four setters of resetUploadState.
resetUploadState ==
    /\ modalExtractedText' = ""
    /\ uploadedFile' = NoFile
    /\ uploadError' = ""
    /\ isProcessing' = FALSE

\* 'Upload Different File', rendered with the extracted text.
uploadDifferentFile ==
    /\ uploadTab = "file"
    /\ modalExtractedText # "" /\ ~isProcessing
    /\ resetUploadState
    /\ lastOp' = [op |-> "reset", file |-> NoFile]
    /\ UNCHANGED <<extractions, nUploads, offered, extractCalls, produced,
                   uploadTab, urlInput, emitted, chatVars>>

\* A click on one of the two tabs: setUploadTab, resetUploadState and, for
\* the file tab, setUrlInput('').
uploadTabClick(tab) ==
    /\ uploadTab' = tab
    /\ resetUploadState
    /\ urlInput' = IF tab = "file" THEN "" ELSE urlInput
    /\ lastOp' = [op |-> "tab", file |-> NoFile]
    /\ UNCHANGED <<extractions, nUploads, offered, extractCalls, produced,
                   emitted, chatVars>>

\* onChange of the URL field.
setUrlInput(url) ==
    /\ uploadTab = "url"
    /\ url # urlInput
    /\ urlInput' = url
    /\ lastOp' = [op |-> "type", file |-> NoFile]
    /\ UNCHANGED <<uploadError, isProcessing, modalExtractedText, uploadedFile,
                   extractions, nUploads, offered, extractCalls, produced,
                   uploadTab, emitted, chatVars>>

IsLetter(c) == \E i \in 1..26 : SubSeq(LowerCase, i, i) = c \/ SubSeq(UpperCase, i, i) = c

SchemeChar(c) == IsLetter(c) \/ (\E n \in 0..9 : Digit(n) = c) \/ c \in {"+", "-", "."}

\* The place of the first ':' of s, 0 if it has none.
ColonAt(s) ==
    LET at == {i \in 1..Len(s) : SubSeq(s, i, i) = ":"}
    IN  IF at = {} THEN 0 ELSE CHOOSE i \in at : \A j \in at : i <= j

RECURSIVE SkipSlashes(_)
SkipSlashes(s) ==
    IF s # "" /\ Head(s) \in {"/", "\\"} THEN SkipSlashes(Tail(s)) ELSE s

\* Whether new URL(s) returns, for s without a base: s must start with a
\* scheme, and with one of the special schemes it must name a host.
NewUrlOk(s) ==
    LET c == ColonAt(s)
        scheme == SubSeq(s, 1, c - 1)
        rest == SkipSlashes(SubSeq(s, c + 1, Len(s)))
    IN  /\ c > 1
        /\ IsLetter(Head(s))
        /\ \A i \in 1..(c - 1) : SchemeChar(SubSeq(s, i, i))
        /\ scheme \in {"http", "https", "ws", "wss", "ftp"} =>
              /\ rest # ""
              /\ Head(rest) \notin {"?", "#", " ", ":"}

UrlError == "Please enter a valid URL"

\* Mutant: the dialog is closed after a rejected URL as well.
UrlSubmit_ClosesAnyway(url) ==
    IF Trim(url) = "" \/ ~NewUrlOk(Trim(url))
    THEN [error |-> UrlError, close |-> TRUE]
    ELSE [error |-> "", close |-> TRUE]

\* handleUrlSubmit: the error it sets and whether it calls onClose.
UrlSubmit(url) ==
    IF Trim(url) = "" \/ ~NewUrlOk(Trim(url))
    THEN [error |-> UrlError, close |-> FALSE]
    ELSE [error |-> "", close |-> TRUE]

Call(name, arg) == [call |-> name, arg |-> arg]

\* 'Process URL', enabled while the field holds more than white space.
handleUrlSubmit ==
    /\ uploadTab = "url"
    /\ Trim(urlInput) # ""
    /\ uploadError' = UrlSubmit(urlInput).error
    /\ emitted' = IF UrlSubmit(urlInput).close
                  THEN emitted \cup {Call("onClose", "")} ELSE emitted
    /\ lastOp' = [op |-> "url", file |-> NoFile]
    /\ UNCHANGED <<isProcessing, modalExtractedText, uploadedFile, extractions,
                   nUploads, offered, extractCalls, produced, uploadTab,
                   urlInput, chatVars>>

\* The message handleProcessFile hands to onSubmit.
ProcessedMessage(text, name, saved) ==
    "File processed successfully! Extracted " \o NatToString(Len(text))
    \o " characters from " \o name \o ". "
    \o (IF saved THEN "Data saved to your activity history."
        ELSE "Note: Database storage is not available - please configure Supabase to save data permanently.")

\* How 'Analyze Extracted Text' goes: no userEmail, or insertUserActivity
\* returns a row, returns null or throws.
SaveOutcomes == {"noEmail", "saved", "unavailable", "throws"}

\* handleProcessFile, rendered with the extracted text.
handleProcessFile(outcome) ==
    /\ uploadTab = "file"
    /\ modalExtractedText # "" /\ ~isProcessing
    /\ LET insert == Call("insertUserActivity", modalExtractedText)
           submit == Call("onSubmit", ProcessedMessage(modalExtractedText,
                                          uploadedFile.name, outcome = "saved"))
       IN  IF outcome = "throws"
           THEN /\ emitted' = emitted \cup {insert}
                /\ uploadError' = "Failed to save extracted text. Please try again."
                /\ UNCHANGED <<modalExtractedText, uploadedFile>>
           ELSE /\ emitted' = emitted \cup {submit, Call("onClose", "")}
                                \cup (IF outcome = "noEmail" THEN {} ELSE {insert})
                /\ modalExtractedText' = ""
                /\ uploadedFile' = NoFile
                /\ UNCHANGED uploadError
    /\ lastOp' = [op |-> "process", file |-> NoFile]
    /\ UNCHANGED <<isProcessing, extractions, nUploads, offered, extractCalls,
                   produced, uploadTab, urlInput, chatVars>>

-----------------------------------------------------------------------------
(* Parsed JSON values.  A scalar carries its text as JavaScript prints it; *)
(* an array or object carries its entries in order (k is "" in an array).  *)

JStr(s) == [t |-> "string", s |-> s, items |-> <<>>]
JNum(s) == [t |-> "number", s |-> s, items |-> <<>>]
JBool(b) == [t |-> "boolean", s |-> IF b THEN "true" ELSE "false", items |-> <<>>]
JNull == [t |-> "null", s |-> "null", items |-> <<>>]
JUndefined == [t |-> "undefined", s |-> "undefined", items |-> <<>>]
JArr(vals) ==
    [t |-> "array", s |-> "",
     items |-> [i \in 1..Len(vals) |-> [k |-> "", val |-> vals[i]]]]
JObj(entries) == [t |-> "object", s |-> "", items |-> entries]
Entry(key, v) == [k |-> key, val |-> v]

\* typeof v === 'object': objects, arrays and null.
TypeofObject(v) == v.t \in {"object", "array", "null"}

\* JavaScript truthiness.
Truthy(v) ==
    CASE v.t = "string" -> v.s # ""
      [] v.t = "number" -> v.s \notin {"0", "-0", "NaN"}
      [] v.t = "boolean" -> v.s = "true"
      [] v.t \in {"null", "undefined"} -> FALSE
      [] OTHER -> TRUE

\* data.key: the last entry of that name in an object, undefined otherwise
\* (reading a property of null throws: see formatJsonResponse).
RECURSIVE LookupFrom(_, _, _)
LookupFrom(items, key, i) ==
    IF i = 0 THEN JUndefined
    ELSE IF items[i].k = key THEN items[i].val
    ELSE LookupFrom(items, key, i - 1)

GetProp(data, key) ==
    IF data.t = "object" THEN LookupFrom(data.items, key, Len(data.items))
    ELSE JUndefined

IsUpper(c) == \E i \in 1..26 : SubSeq(UpperCase, i, i) = c

ToUpper(c) ==
    IF \E i \in 1..26 : SubSeq(LowerCase, i, i) = c
    THEN LET i == CHOOSE j \in 1..26 : SubSeq(LowerCase, j, j) = c
         IN  SubSeq(UpperCase, i, i)
    ELSE c

\* key.replace(/([A-Z])/g, ' $1')
RECURSIVE SpaceBeforeCapitals(_)
SpaceBeforeCapitals(s) ==
    IF s = "" THEN ""
    ELSE (IF IsUpper(Head(s)) THEN " " \o Head(s) ELSE Head(s))
         \o SpaceBeforeCapitals(Tail(s))

\* .replace(/^./, str => str.toUpperCase())
UpperFirst(s) ==
    IF s = "" \/ Head(s) = "\n" THEN s ELSE ToUpper(Head(s)) \o Tail(s)

FormattedKey(key) == UpperFirst(SpaceBeforeCapitals(key))

\* Whether formatObjectToText throws on obj: Object.entries(null), reached
\* through an array item that is null.
RECURSIVE ObjectToTextThrows(_)
ObjectToTextThrows(obj) ==
    \/ obj.t = "null"
    \/ /\ obj.t = "array"
       /\ \E i \in 1..Len(obj.items) :
            /\ TypeofObject(obj.items[i].val)
            /\ ObjectToTextThrows(obj.items[i].val)
    \/ /\ obj.t = "object"
       /\ \E i \in 1..Len(obj.items) :
            /\ TypeofObject(obj.items[i].val)
            /\ obj.items[i].val.t # "null"
            /\ ObjectToTextThrows(obj.items[i].val)

\* formatObjectToText, for an obj it does not throw on.  In an object the
\* branch for typeof value === 'object' also takes the arrays, so the
\* Array.isArray branch after it is never taken.
RECURSIVE formatObjectToText(_)
RECURSIVE FormatItems(_, _, _)
FormatItems(obj, i, formatted) ==
    IF i > Len(obj.items) THEN formatted
    ELSE LET e == obj.items[i]
             piece ==
                 IF obj.t = "array"
                 THEN NatToString(i) \o ". "
                      \o (IF TypeofObject(e.val) THEN formatObjectToText(e.val)
                          ELSE e.val.s)
                      \o "\n"
                 ELSE IF TypeofObject(e.val) /\ e.val.t # "null"
                 THEN "**" \o FormattedKey(e.k) \o ":**\n"
                      \o formatObjectToText(e.val) \o "\n\n"
                 ELSE "**" \o FormattedKey(e.k) \o ":** " \o e.val.s \o "\n"
         IN  FormatItems(obj, i + 1, formatted \o piece)

formatObjectToText(obj) == Trim(FormatItems(obj, 1, ""))

\* formatJsonResponse: [ok, value]; ok is FALSE when it throws.
formatJsonResponse(data) ==
    IF data.t = "null" THEN Reject("TypeError: Cannot read properties of null")
    ELSE
    LET r1 == GetProp(data, "result")
        r2 == GetProp(data, "data")
        r3 == GetProp(data, "output")
        r4 == GetProp(data, "response")
        result == IF Truthy(r1) THEN r1
                  ELSE IF Truthy(r2) THEN r2
                  ELSE IF Truthy(r3) THEN r3
                  ELSE IF Truthy(r4) THEN r4
                  ELSE data
    IN  IF ~Truthy(result) THEN Resolve("No result data found in the response.")
        ELSE IF result.t = "string" THEN Resolve(result.s)
        ELSE IF TypeofObject(result) THEN
            IF ObjectToTextThrows(result)
            THEN Reject("TypeError: Cannot convert undefined or null to object")
            ELSE Resolve(formatObjectToText(result))
        ELSE Resolve(result.s)

-----------------------------------------------------------------------------
(* JSON.parse, for the grammar without fractions, exponents, signs and    *)
(* \u escapes; no body considered here has them.                          *)

JsonWs == {" ", "\t", "\n", "\r"}

RECURSIVE SkipWs(_)
SkipWs(s) == IF s # "" /\ Head(s) \in JsonWs THEN SkipWs(Tail(s)) ELSE s

Parsed(v, rest) == [ok |-> TRUE, val |-> v, rest |-> rest]
SyntaxError == [ok |-> FALSE, val |-> JUndefined, rest |-> ""]

IsDigit(c) == \E n \in 0..9 : Digit(n) = c

RECURSIVE TakeDigits(_)
TakeDigits(s) ==
    IF s # "" /\ IsDigit(Head(s)) THEN Head(s) \o TakeDigits(Tail(s)) ELSE ""

\* What a backslash escape stands for; "" for an escape that is none.
Unescape(c) ==
    CASE c = "n" -> "\n"
      [] c = "t" -> "\t"
      [] c = "r" -> "\r"
      [] c = "\"" -> "\""
      [] c = "\\" -> "\\"
      [] c = "/" -> "/"
      [] OTHER -> ""

\* A string literal after its opening quote.
RECURSIVE ScanString(_, _)
ScanString(s, acc) ==
    IF s = "" THEN SyntaxError
    ELSE IF Head(s) = "\"" THEN Parsed(JStr(acc), Tail(s))
    ELSE IF Head(s) \in {"\n", "\t", "\r", "\f"} THEN SyntaxError
    ELSE IF Head(s) = "\\"
    THEN IF Len(s) < 2 \/ Unescape(SubSeq(s, 2, 2)) = "" THEN SyntaxError
         ELSE ScanString(SubSeq(s, 3, Len(s)), acc \o Unescape(SubSeq(s, 2, 2)))
    ELSE ScanString(Tail(s), acc \o Head(s))

\* obj[key] = v while parsing: a repeated key keeps its place and takes the
\* later value.
SetProp(entries, key, v) ==
    IF \E i \in 1..Len(entries) : entries[i].k = key
    THEN [i \in 1..Len(entries) |->
            IF entries[i].k = key THEN Entry(key, v) ELSE entries[i]]
    ELSE Append(entries, Entry(key, v))

RECURSIVE ParseValue(_)
RECURSIVE ParseElements(_, _)
RECURSIVE ParseMembers(_, _)

ParseElements(s, vals) ==
    LET r == ParseValue(s)
        t == SkipWs(r.rest)
    IN  IF ~r.ok \/ t = "" THEN SyntaxError
        ELSE IF Head(t) = "," THEN ParseElements(Tail(t), Append(vals, r.val))
        ELSE IF Head(t) = "]" THEN Parsed(JArr(Append(vals, r.val)), Tail(t))
        ELSE SyntaxError

ParseMembers(s, entries) ==
    LET t0 == SkipWs(s)
        key == ScanString(Tail(t0), "")
        t1 == SkipWs(key.rest)
        r == ParseValue(Tail(t1))
        t2 == SkipWs(r.rest)
        es == SetProp(entries, key.val.s, r.val)
    IN  IF t0 = "" \/ Head(t0) # "\"" THEN SyntaxError
        ELSE IF ~key.ok \/ t1 = "" \/ Head(t1) # ":" THEN SyntaxError
        ELSE IF ~r.ok \/ t2 = "" THEN SyntaxError
        ELSE IF Head(t2) = "," THEN ParseMembers(Tail(t2), es)
        ELSE IF Head(t2) = "}" THEN Parsed(JObj(es), Tail(t2))
        ELSE SyntaxError

ParseValue(s0) ==
    LET s == SkipWs(s0)
        digits == TakeDigits(s)
        t == SkipWs(Tail(s))
    IN  IF s = "" THEN SyntaxError
        ELSE IF StartsWith(s, "null") THEN Parsed(JNull, SubSeq(s, 5, Len(s)))
        ELSE IF StartsWith(s, "true") THEN Parsed(JBool(TRUE), SubSeq(s, 5, Len(s)))
        ELSE IF StartsWith(s, "false") THEN Parsed(JBool(FALSE), SubSeq(s, 6, Len(s)))
        ELSE IF Head(s) = "\"" THEN ScanString(Tail(s), "")
        ELSE IF IsDigit(Head(s))
        THEN IF Len(digits) > 1 /\ Head(digits) = "0"
             THEN Parsed(JNum("0"), Tail(s))
             ELSE Parsed(JNum(digits), SubSeq(s, Len(digits) + 1, Len(s)))
        ELSE IF Head(s) = "["
        THEN IF t # "" /\ Head(t) = "]" THEN Parsed(JArr(<<>>), Tail(t))
             ELSE ParseElements(t, <<>>)
        ELSE IF Head(s) = "{"
        THEN IF t # "" /\ Head(t) = "}" THEN Parsed(JObj(<<>>), Tail(t))
             ELSE ParseMembers(t, <<>>)
        ELSE SyntaxError

\* JSON.parse(text): the value, or ok = FALSE where it throws a SyntaxError.
JSONparse(text) ==
    LET r == ParseValue(text)
    IN  IF r.ok /\ SkipWs(r.rest) = "" THEN r ELSE SyntaxError

-----------------------------------------------------------------------------
(* Time: the abort timer of ChatbotPage.tsx, in steps of TickMs *)

TimeoutMs == 30000

TickMs == TimeoutMs \div TicksPerTimeout

MaxWaitMs == TimeoutMs + TickMs

-----------------------------------------------------------------------------
(* The chat pages: what ChatbotPage.tsx (A) and part_003 (B) share *)

Contexts == {"upload", "medicine-search", "question"}

getWelcomeMessage(ctx) ==
    CASE ctx = "upload" -> "Hello! I'm your MediLens AI assistant. I can help you analyze prescriptions, medical documents, or any health-related content. You can upload files, share URLs, or simply describe what you'd like to know about your prescription."
      [] ctx = "medicine-search" -> "Hi there! I'm here to help you find detailed information about medicines. Just tell me the name of any medication, and I'll provide you with usage instructions, dosage, side effects, interactions, and more from trusted medical databases."
      [] ctx = "question" -> "Welcome! I'm your AI health assistant. Feel free to ask me any questions about medications, health conditions, symptoms, or general medical information. I'm here to provide you with accurate, helpful answers."
      [] OTHER -> "Hello! I'm your MediLens AI assistant. How can I help you today?"

\* A Message of the transcript; att is attachmentType ("" when absent).
Msg(id, type, content, loading, att) ==
    [id |-> id, type |-> type, content |-> content, isLoading |-> loading,
     att |-> att]

\* Message ids (Date.now() strings in the code): send k shows its user
\* message as 2k-1 and its loading placeholder as 2k; a local welcome
\* message is 0; a message that came from the store has a negative id.
UserId(k) == 2 * k - 1
LoadingId(k) == 2 * k

\* prev.map(msg => msg.id === loadingMessage.id ? {...msg, content,
\* isLoading: false} : msg)
ReplaceLoading(m, id, content) ==
    [i \in 1..Len(m) |->
        IF m[i].id = id
        THEN [m[i] EXCEPT !.content = content, !.isLoading = FALSE]
        ELSE m[i]]

\* if (!messageToSend || isLoading) return;
SendAllowed(messageToSend, loading) == messageToSend # "" /\ ~loading

\* What the webhook answers: the fetch fails (net = "error") or returns a
\* status and a body, which is JSON text (json is its parse) or other text.
Response(net, status, kind, text, json) ==
    [net |-> net, status |-> status, kind |-> kind, text |-> text, json |-> json]

Responses ==
    { Response("ok", 200, "json", "", JObj(<<Entry("result", JStr("Take with food"))>>)),
      Response("ok", 200, "json", "", JNull),
      Response("ok", 404, "text", "not found", JNull),
      Response("error", 0, "text", "", JNull) }

ResponseOk(status) == status >= 200 /\ status <= 299

\* A variant that answers every body that is not JSON with the fixed
\* sentence.
ParseAndFormat_NeverVerbatim(resp) ==
    IF resp.kind = "text"
    THEN Resolve("Received response from workflow but could not parse it.")
    ELSE formatJsonResponse(resp.json)

\* The end of simulateLLMResponse: JSON.parse, the plain-text fallback and
\* formatJsonResponse.
ParseAndFormat(resp) ==
    IF resp.kind = "text"
    THEN Resolve(IF resp.text # "" THEN resp.text
                 ELSE "Received response from workflow but could not parse it.")
    ELSE formatJsonResponse(resp.json)

\* What a send has done so far, in order.
Before(log, a, b) ==
    \A j \in 1..Len(log) : log[j] = b => \E i \in 1..(j - 1) : log[i] = a

Count(log, a) == Cardinality({i \in 1..Len(log) : log[i] = a})

\* The handlers run so far: the sends and the session operations.
Acts == Len(reqs) + Len(ops)

StepResult(m, r, l) == [messages |-> m, req |-> r, isLoading |-> l]

InFlight(r) == r.pc # "done"

Outstanding(r) == r.pc = "fetch"

-----------------------------------------------------------------------------
(* B: the chat page with the session store (part_003, lib/supabase.ts) *)

B_ErrorMessage == "I apologize, but I encountered an error processing your request. Please try again or contact support if the issue persists."

NewRequest(k, sid, text, att, kind, auto) ==
    [sid |-> sid, text |-> text, att |-> att, kind |-> kind,
     loadId |-> LoadingId(k), pc |-> "start", reply |-> "", failed |-> FALSE,
     calls |-> 0, userInsert |-> "none", botInsert |-> "none", auto |-> auto,
     waited |-> 0, wiped |-> FALSE, log |-> <<"append">>]

\* setMessages([...]) with a new array: the messages of the sends made so
\* far leave the transcript.
WipeAll(rs) == [i \in 1..Len(rs) |-> [rs[i] EXCEPT !.wiped = TRUE]]

Row(sid, type, content, att) ==
    [session_id |-> sid, type |-> type, content |-> content,
     attachment_type |-> att]

\* The insert of chat_messages: the row's session must exist (foreign key,
\* row level security), and the request may fail (dbOk).
InsertSucceeds(sid, dbOk) == dbOk /\ sid \in dbSessions

\* getChatMessages: the session's rows, created_at ascending.
getChatMessages(sid) == SelectSeq(dbMessages, LAMBDA row : row.session_id = sid)

\* loadChatMessages' map of the rows to Messages.
FormattedMessages(rows) ==
    [i \in 1..Len(rows) |->
        Msg(0 - i, rows[i].type, rows[i].content, FALSE, rows[i].attachment_type)]

\* simulateLLMResponse of part_003 once the fetch has settled.
B_simulateLLMResponse(resp) ==
    IF resp.net = "error"
    THEN Reject("Network error: Unable to connect to the n8n webhook. Please verify the webhook URL is correct and accessible.")
    ELSE IF ~ResponseOk(resp.status)
    THEN Reject("AI service error: HTTP error! status: " \o NatToString(resp.status)
                \o " - " \o resp.text)
    ELSE LET r == ParseAndFormat(resp)
         IN  IF r.ok THEN r ELSE Reject("AI service error: " \o r.value)

\* handleSendMessage from the reply on: the placeholder takes the reply (or
\* the apology), the bot message is inserted when the handler holds a
\* session id, then setIsLoading(false).
B_AfterReply(m, r, res, cur) ==
    LET content == IF res.ok THEN res.value ELSE B_ErrorMessage
        m2 == ReplaceLoading(m, r.loadId, content)
        r2 == [r EXCEPT !.reply = content, !.failed = ~res.ok, !.waited = 0,
                        !.log = Append(@, "reply")]
    IN  IF r.sid = 0
        THEN StepResult(m2, [r2 EXCEPT !.pc = "done", !.log = Append(@, "idle")], FALSE)
        ELSE IF ~env.supabase
        THEN StepResult(m2, [r2 EXCEPT !.pc = "done", !.botInsert = "failed",
                                       !.log = @ \o <<"insertBot", "idle">>], FALSE)
        ELSE StepResult(m2, [r2 EXCEPT !.pc = "insertBot", !.botInsert = "pending",
                                       !.log = Append(@, "insertBot")], cur)

\* simulateLLMResponse of part_003 up to its fetch: it throws before any
\* request leaves only when the URL is not set; the URL's form is not looked
\* at, fetch resolves it against the page.
B_simulate(m, r, cur) ==
    IF env.webhookUrl # "missing"
    THEN StepResult(m, [r EXCEPT !.pc = "fetch", !.calls = @ + 1,
                                 !.log = Append(@, "call")], cur)
    ELSE B_AfterReply(m, r, Reject("AI service error: N8N webhook URL not configured. Please set VITE_N8N_WEBHOOK_URL in your .env file."), cur)

\* Mutant: a failed insert of the user message ends the send.
B_AfterUserInsert_FailStops(m, r, ok, cur) ==
    IF ok
    THEN B_simulate(m, [r EXCEPT !.userInsert = "ok"], cur)
    ELSE StepResult(m, [r EXCEPT !.userInsert = "failed", !.pc = "done"], cur)

\* handleSendMessage once insertChatMessage of the user message returned:
\* its result is not looked at.
B_AfterUserInsert(m, r, ok, cur) ==
    B_simulate(m, [r EXCEPT !.userInsert = IF ok THEN "ok" ELSE "failed"], cur)

\* The values a render's handleSendMessage closes over.
Closure(et, im, ld, sid) ==
    [extractedText |-> et, inputMessage |-> im, isLoading |-> ld,
     currentSessionId |-> sid]

\* The handleSendMessage that initializeChat's setTimeout calls is the one
\* of the render the effect ran in, the first: it sees the initial state.
TimerClosure ==
    Closure(env.initialExtractedText, "", FALSE, env.sessionId)

\* const messageToSend = extractedText || inputMessage.trim();
MessageToSend(cl) ==
    IF cl.extractedText # "" THEN cl.extractedText ELSE Trim(cl.inputMessage)

\* Mutant: the webhook call is made before the user message is inserted.
B_FirstAwait_CallFirst(m, r, cur) == B_simulate(m, r, cur)

\* handleSendMessage from setIsLoading(true) to its first await: the insert
\* of the user message when the handler holds a session id (it returns null
\* at once when the store is not configured), then the webhook call.
B_FirstAwait(m, r, cur) ==
    IF r.sid = 0 THEN B_simulate(m, r, cur)
    ELSE IF env.supabase
    THEN StepResult(m, [r EXCEPT !.pc = "insertUser", !.userInsert = "pending",
                                 !.log = Append(@, "insertUser")], cur)
    ELSE B_AfterUserInsert(m, [r EXCEPT !.log = Append(@, "insertUser")], FALSE, cur)

\* handleSendMessage, run with the closure cl, up to its first await.
B_Send(cl, auto) ==
    /\ page = "B"
    /\ Acts < MaxActs
    /\ SendAllowed(MessageToSend(cl), cl.isLoading)
    /\ LET k == Len(reqs) + 1
           attachmentType == IF cl.extractedText # "" THEN "image" ELSE "text"
           r0 == NewRequest(k, cl.currentSessionId, MessageToSend(cl),
                            attachmentType, "send", auto)
           m1 == messages \o <<Msg(UserId(k), "user", MessageToSend(cl), FALSE, attachmentType),
                               Msg(LoadingId(k), "bot", "", TRUE, "")>>
           st == B_FirstAwait(m1, r0, TRUE)
       IN  /\ messages' = st.messages
           /\ reqs' = Append(reqs, st.req)
           /\ isLoading' = st.isLoading
    /\ inputMessage' = ""
    /\ extractedText' = ""

frameB == <<uploadVars, sideVars, page, env, showUploadModal>>

\* The send button or the Enter key: the handler of the latest render.
B_handleSendMessage ==
    /\ B_Send(Closure(extractedText, inputMessage, isLoading, currentSessionId), FALSE)
    /\ UNCHANGED <<frameB, currentSessionId, chatSessions, timer, ops, nSessions,
                   nProvided, storeVars>>

\* setTimeout(() => { handleSendMessage(); }, 1000) fires.
B_timerFires ==
    /\ timer = "armed"
    /\ timer' = "fired"
    /\ B_Send(TimerClosure, TRUE)
    /\ UNCHANGED <<frameB, currentSessionId, chatSessions, ops, nSessions, nProvided,
                   storeVars>>

\* onChange of the input: disabled while loading, read-only while extracted
\* text is shown.
B_setInputMessage(txt) ==
    /\ page = "B"
    /\ Acts < MaxActs
    /\ ~isLoading /\ extractedText = ""
    /\ txt # inputMessage
    /\ inputMessage' = txt
    /\ UNCHANGED <<frameB, messages, isLoading, reqs, sessionVars, storeVars>>

\* handleFileUpload: extracted text handed to the page.
B_handleFileUpload(text) ==
    /\ page = "B"
    /\ nProvided < MaxExtracts
    /\ extractedText' = text
    /\ inputMessage' = ""
    /\ nProvided' = nProvided + 1
    /\ UNCHANGED <<frameB, messages, isLoading, reqs, currentSessionId, chatSessions,
                   timer, ops, nSessions, storeVars>>

\* insertChatMessage of the user message returns.
B_UserInsertSettles(k, dbOk) ==
    /\ page = "B"
    /\ k \in 1..Len(reqs) /\ reqs[k].pc = "insertUser"
    /\ LET r == reqs[k]
           ok == InsertSucceeds(r.sid, dbOk)
           st == B_AfterUserInsert(messages, r, ok, isLoading)
       IN  /\ dbMessages' = IF ok THEN Append(dbMessages, Row(r.sid, "user", r.text, r.att))
                            ELSE dbMessages
           /\ messages' = st.messages
           /\ reqs' = [reqs EXCEPT ![k] = st.req]
           /\ isLoading' = st.isLoading
    /\ UNCHANGED <<frameB, inputMessage, sessionVars, dbSessions>>

\* The fetch of the webhook settles.
B_WebhookSettles(k, resp) ==
    /\ page = "B"
    /\ k \in 1..Len(reqs) /\ reqs[k].pc = "fetch"
    /\ LET st == B_AfterReply(messages, reqs[k], B_simulateLLMResponse(resp), isLoading)
       IN  /\ messages' = st.messages
           /\ reqs' = [reqs EXCEPT ![k] = st.req]
           /\ isLoading' = st.isLoading
    /\ UNCHANGED <<frameB, inputMessage, sessionVars, storeVars>>

\* insertChatMessage of the bot message returns; setIsLoading(false).
B_BotInsertSettles(k, dbOk) ==
    /\ page = "B"
    /\ k \in 1..Len(reqs) /\ reqs[k].pc = "insertBot"
    /\ LET r == reqs[k]
           ok == InsertSucceeds(r.sid, dbOk)
       IN  /\ dbMessages' = IF ok THEN Append(dbMessages, Row(r.sid, "bot", r.reply, ""))
                            ELSE dbMessages
           /\ reqs' = [reqs EXCEPT ![k] = [r EXCEPT !.pc = "done",
                          !.botInsert = IF ok THEN "ok" ELSE "failed",
                          !.log = Append(@, "idle")]]
    /\ isLoading' = FALSE
    /\ UNCHANGED <<frameB, messages, inputMessage, sessionVars, dbSessions>>

\* Time passes while a webhook call is outstanding: part_003 sets no timer.
B_Tick ==
    /\ page = "B"
    /\ timer # "armed"
    /\ \E k \in 1..Len(reqs) : Outstanding(reqs[k])
    /\ \A k \in 1..Len(reqs) : Outstanding(reqs[k]) => reqs[k].waited < MaxWaitMs
    /\ reqs' = [k \in 1..Len(reqs) |->
                  IF Outstanding(reqs[k])
                  THEN [reqs[k] EXCEPT !.waited = @ + TickMs]
                  ELSE reqs[k]]
    /\ UNCHANGED <<frameB, messages, inputMessage, isLoading, sessionVars, storeVars>>

-----------------------------------------------------------------------------
(* B: sessions (initializeChat, createNewChatSession, handleNewChat,
   handleLoadSession, handleDeleteSession of part_003) *)

\* An asynchronous session operation and where it stands.
Op(kind, pc, sid, wasCurrent) ==
    [kind |-> kind, pc |-> pc, sid |-> sid, wasCurrent |-> wasCurrent,
     failed |-> FALSE]

\* `local-${Date.now()}`: the id of a mock session, never a row of the store.
LocalId(n) == 100 + n

WelcomeRow(sid) == Row(sid, "bot", getWelcomeMessage(env.initialContext), "")

LocalWelcome == <<Msg(0, "bot", getWelcomeMessage(env.initialContext), FALSE, "")>>

Pending(i) == i \in 1..Len(ops) /\ ops[i].pc # "done"

\* The end of initializeChat arms the automatic send.
TimerAfter(op) ==
    IF op.kind = "init" /\ env.initialExtractedText # "" /\ env.sessionId = 0
    THEN "armed" ELSE timer

frameS == <<uploadVars, sideVars, page, env, showUploadModal, isLoading, nProvided>>

\* const currentUser = await getCurrentUser(); if (!currentUser) return;
B_initGetUser ==
    /\ page = "B"
    /\ Pending(1) /\ ops[1].pc = "getUser"
    /\ ops' = [ops EXCEPT ![1].pc =
                 IF env.supabase /\ env.signedIn THEN "loadSessions" ELSE "done"]
    /\ UNCHANGED <<frameS, pageVars, currentSessionId, extractedText, chatSessions,
                   timer, nSessions, storeVars>>

\* await loadChatSessions(); then the session of the props or a new one.
B_initLoadSessions(dbOk) ==
    /\ page = "B"
    /\ Pending(1) /\ ops[1].pc = "loadSessions"
    /\ chatSessions' = IF dbOk THEN dbSessions ELSE {}
    /\ IF env.sessionId # 0
       THEN /\ currentSessionId' = env.sessionId
            /\ ops' = [ops EXCEPT ![1].pc = "loadMessages", ![1].sid = env.sessionId,
                                  ![1].failed = ~dbOk]
       ELSE /\ ops' = [ops EXCEPT ![1].pc = "create", ![1].failed = ~dbOk]
            /\ UNCHANGED currentSessionId
    /\ UNCHANGED <<frameS, pageVars, extractedText, timer, nSessions, storeVars>>

\* loadChatMessages settles (of initializeChat or of handleLoadSession):
\* setMessages(formattedMessages).
B_LoadSettles(i, dbOk) ==
    /\ page = "B"
    /\ Pending(i) /\ ops[i].pc = "loadMessages"
    /\ messages' = IF dbOk THEN FormattedMessages(getChatMessages(ops[i].sid)) ELSE <<>>
    /\ reqs' = WipeAll(reqs)
    /\ ops' = [ops EXCEPT ![i].pc = IF ops[i].kind = "init" THEN "getSessions" ELSE "done",
                          ![i].failed = @ \/ ~dbOk]
    /\ UNCHANGED <<frameS, inputMessage, currentSessionId, extractedText, chatSessions,
                   timer, nSessions, storeVars>>

\* const sessions = await getChatSessions(); only the title is set.
B_initGetSessions ==
    /\ page = "B"
    /\ Pending(1) /\ ops[1].pc = "getSessions"
    /\ ops' = [ops EXCEPT ![1].pc = "done"]
    /\ timer' = TimerAfter(ops[1])
    /\ UNCHANGED <<frameS, pageVars, currentSessionId, extractedText, chatSessions,
                   nSessions, storeVars>>

\* createChatSession settles with a store: a session row, or null (no user,
\* error), and then the local welcome message.
B_CreateSettles(i, dbOk) ==
    /\ page = "B"
    /\ Pending(i) /\ ops[i].pc = "create"
    /\ IF dbOk /\ env.signedIn
       THEN /\ nSessions' = nSessions + 1
            /\ dbSessions' = dbSessions \cup {nSessions + 1}
            /\ currentSessionId' = nSessions + 1
            /\ ops' = [ops EXCEPT ![i].pc = "refresh", ![i].sid = nSessions + 1]
            /\ UNCHANGED <<messages, reqs, timer>>
       ELSE /\ messages' = LocalWelcome
            /\ reqs' = WipeAll(reqs)
            /\ ops' = [ops EXCEPT ![i].pc = "done", ![i].failed = TRUE]
            /\ timer' = TimerAfter(ops[i])
            /\ UNCHANGED <<nSessions, dbSessions, currentSessionId>>
    /\ UNCHANGED <<frameS, inputMessage, extractedText, chatSessions, dbMessages>>

\* await loadChatSessions() of createNewChatSession.
B_RefreshSettles(i, dbOk) ==
    /\ page = "B"
    /\ Pending(i) /\ ops[i].pc = "refresh"
    /\ chatSessions' = IF dbOk THEN dbSessions ELSE {}
    /\ ops' = [ops EXCEPT ![i].pc = "welcome", ![i].failed = @ \/ ~dbOk]
    /\ UNCHANGED <<frameS, pageVars, currentSessionId, extractedText, timer,
                   nSessions, storeVars>>

\* The insert of the welcome message settles: if (botMessage) setMessages([it]).
B_WelcomeSettles(i, dbOk) ==
    /\ page = "B"
    /\ Pending(i) /\ ops[i].pc = "welcome"
    /\ LET ok == InsertSucceeds(ops[i].sid, dbOk)
       IN  /\ dbMessages' = IF ok THEN Append(dbMessages, WelcomeRow(ops[i].sid))
                            ELSE dbMessages
           /\ messages' = IF ok THEN FormattedMessages(<<WelcomeRow(ops[i].sid)>>)
                          ELSE messages
           /\ reqs' = IF ok THEN WipeAll(reqs) ELSE reqs
           /\ ops' = [ops EXCEPT ![i].pc = "done", ![i].failed = @ \/ ~ok]
    /\ timer' = TimerAfter(ops[i])
    /\ UNCHANGED <<frameS, inputMessage, currentSessionId, extractedText, chatSessions,
                   nSessions, dbSessions>>

\* handleNewChat up to its await. Without a store createChatSession returns
\* a mock session at once, the session list comes back empty and the welcome
\* insert returns null, so no welcome message is set.
handleNewChat ==
    /\ page = "B"
    /\ Acts < MaxActs
    /\ messages' = <<>>
    /\ reqs' = WipeAll(reqs)
    /\ extractedText' = ""
    /\ inputMessage' = ""
    /\ IF env.supabase
       THEN /\ currentSessionId' = 0
            /\ ops' = Append(ops, Op("new", "create", 0, FALSE))
            /\ UNCHANGED <<nSessions, chatSessions>>
       ELSE /\ currentSessionId' = LocalId(nSessions + 1)
            /\ nSessions' = nSessions + 1
            /\ chatSessions' = {}
            /\ ops' = Append(ops, Op("new", "done", LocalId(nSessions + 1), FALSE))
    /\ UNCHANGED <<frameS, timer, storeVars>>

\* handleLoadSession(session) up to its await.
handleLoadSession(s) ==
    /\ page = "B"
    /\ Acts < MaxActs
    /\ s \in chatSessions
    /\ currentSessionId' = s
    /\ extractedText' = ""
    /\ inputMessage' = ""
    /\ ops' = Append(ops, Op("load", "loadMessages", s, FALSE))
    /\ UNCHANGED <<frameS, messages, reqs, chatSessions, timer, nSessions, storeVars>>

\* handleDeleteSession(sessionId) up to its await; the handler keeps the
\* currentSessionId of the render it was made in.
handleDeleteSession(s) ==
    /\ page = "B"
    /\ Acts < MaxActs
    /\ s \in chatSessions
    /\ ops' = Append(ops, Op("delete", "delete", s, currentSessionId = s))
    /\ UNCHANGED <<frameS, pageVars, currentSessionId, extractedText, chatSessions,
                   timer, nSessions, storeVars>>

\* deleteChatSession settles: the rows of the session go with it (ON DELETE
\* CASCADE); a deleted current session is followed by handleNewChat.
B_DeleteSettles(i, dbOk) ==
    /\ page = "B"
    /\ Pending(i) /\ ops[i].pc = "delete"
    /\ IF dbOk
       THEN /\ dbSessions' = dbSessions \ {ops[i].sid}
            /\ dbMessages' = SelectSeq(dbMessages, LAMBDA row : row.session_id # ops[i].sid)
            /\ chatSessions' = chatSessions \ {ops[i].sid}
            /\ IF ops[i].wasCurrent
               THEN /\ messages' = <<>>
                    /\ reqs' = WipeAll(reqs)
                    /\ currentSessionId' = 0
                    /\ extractedText' = ""
                    /\ inputMessage' = ""
                    /\ ops' = [ops EXCEPT ![i].pc = "create", ![i].sid = 0]
               ELSE /\ ops' = [ops EXCEPT ![i].pc = "done"]
                    /\ UNCHANGED <<pageVars, currentSessionId, extractedText>>
       ELSE /\ ops' = [ops EXCEPT ![i].pc = "done", ![i].failed = TRUE]
            /\ UNCHANGED <<pageVars, currentSessionId, extractedText, chatSessions,
                           storeVars>>
    /\ UNCHANGED <<frameS, timer, nSessions>>

-----------------------------------------------------------------------------
(* A: the chat page without a store (components/ChatbotPage.tsx) *)

A_SendError == "I apologize, but I encountered an error processing your request. Please try again or contact support if the issue persists."

A_UploadError == "I apologize, but I encountered an error processing your uploaded file. Please try again or contact support if the issue persists."

A_TimeoutError == "Request timeout: The webhook is taking too long to respond. Please check your n8n workflow."

\* extractedText.substring(0, 200) + (extractedText.length > 200 ? '...' : '')
Preview(text) ==
    IF Len(text) > 200 THEN SubSeq(text, 1, 200) \o "..." ELSE text

FileMessageContent(text, fileName) ==
    "Uploaded file: " \o (IF fileName # "" THEN fileName ELSE "Unknown file")
        \o "\n\nExtracted text:\n" \o Preview(text)

\* The URL the page is configured with, when it is configured.
WebhookUrlText == "https://n8n.example.com/webhook-test/medilens"

A_NetworkError ==
    "Network error: Cannot reach webhook URL. Please verify:\n1. The URL is correct: "
    \o WebhookUrlText
    \o "\n   - Try changing '/webhook-test/' to '/webhook/' if applicable\n   - Ensure the webhook ID is correct\n2. Your n8n instance is running and accessible\n3. The webhook endpoint exists and is enabled\n4. CORS is configured in n8n to allow requests from localhost:5173"

A_Error404 == "Webhook not found (404): The webhook URL may be incorrect or the endpoint doesn't exist.\nTry:\n1. Check if URL should use '/webhook/' instead of '/webhook-test/'\n2. Verify the webhook ID in your n8n workflow\n3. Ensure the webhook is activated in n8n"

A_Error500 == "Workflow error (500): There's an error in your n8n workflow.\nSteps to fix:\n1. Go to your n8n instance\n2. Check the 'Executions' tab\n3. Look for failed executions\n4. Review the error details in the execution log\n5. Common issues: missing nodes, incorrect data mapping, or authentication problems"

A_Error403 == "Access forbidden (403): Check your n8n webhook authentication settings.\nEnsure:\n1. Webhook authentication is disabled for testing\n2. CORS is properly configured\n3. No IP restrictions are blocking localhost"

\* simulateLLMResponse of ChatbotPage.tsx once the fetch has settled: what
\* it returns, or the error it throws to the handler.
A_simulateLLMResponse(resp) ==
    IF resp.net = "error" THEN Reject(A_NetworkError)
    ELSE IF resp.status = 404 THEN Reject(A_Error404)
    ELSE IF resp.status = 500 THEN Reject(A_Error500)
    ELSE IF resp.status = 403 THEN Reject(A_Error403)
    ELSE IF ~ResponseOk(resp.status)
    THEN Reject("HTTP error " \o NatToString(resp.status) \o ": " \o resp.text)
    ELSE ParseAndFormat(resp)

\* The handlers from the reply on: the placeholder takes the reply or the
\* handler's apology, then setIsLoading(false).
A_AfterReply(m, r, res, cur) ==
    LET content == IF res.ok THEN res.value
                   ELSE IF r.kind = "upload" THEN A_UploadError ELSE A_SendError
    IN  StepResult(ReplaceLoading(m, r.loadId, content),
                   [r EXCEPT !.pc = "done", !.reply = content, !.failed = ~res.ok,
                             !.waited = 0, !.log = @ \o <<"reply", "idle">>], FALSE)

\* simulateLLMResponse up to its fetch: a missing or malformed URL throws
\* before any request leaves.
A_simulate(m, r, cur) ==
    IF env.webhookUrl = "ok"
    THEN StepResult(m, [r EXCEPT !.pc = "fetch", !.calls = @ + 1,
                                 !.log = Append(@, "call")], cur)
    ELSE IF env.webhookUrl = "missing"
    THEN A_AfterReply(m, r, Reject("N8N webhook URL not configured. Please set VITE_N8N_WEBHOOK_URL in your .env file."), cur)
    ELSE A_AfterReply(m, r, Reject("Invalid webhook URL format. Please check your VITE_N8N_WEBHOOK_URL in .env file."), cur)

frameA == <<uploadVars, sideVars, page, env, sessionVars, storeVars>>

\* A handler appends its two messages and starts the call.
A_Start(text, shown, kind) ==
    LET k == Len(reqs) + 1
        r0 == NewRequest(k, 0, text, "", kind, FALSE)
        m1 == messages \o <<Msg(UserId(k), "user", shown, FALSE, ""),
                            Msg(LoadingId(k), "bot", "", TRUE, "")>>
        st == A_simulate(m1, r0, TRUE)
    IN  /\ messages' = st.messages
        /\ reqs' = Append(reqs, st.req)
        /\ isLoading' = st.isLoading

\* handleSendMessage: the send button or the Enter key.
A_handleSendMessage ==
    /\ page = "A"
    /\ Acts < MaxActs
    /\ SendAllowed(Trim(inputMessage), isLoading)
    /\ A_Start(Trim(inputMessage), Trim(inputMessage), "send")
    /\ inputMessage' = ""
    /\ UNCHANGED <<frameA, showUploadModal>>

\* handleFileUpload(extractedText, fileName): the dialog hands its text over.
\* The handler has no guard; its last statement closes the dialog, here
\* when the handler ends at once, else when the call settles.
A_handleFileUpload(text, fileName) ==
    /\ page = "A"
    /\ Acts < MaxActs
    /\ showUploadModal
    /\ A_Start(text, FileMessageContent(text, fileName), "upload")
    /\ showUploadModal' = (env.webhookUrl = "ok")
    /\ UNCHANGED <<frameA, inputMessage>>

\* onChange of the input, disabled while loading.
A_setInputMessage(txt) ==
    /\ page = "A"
    /\ Acts < MaxActs
    /\ ~isLoading
    /\ txt # inputMessage
    /\ inputMessage' = txt
    /\ UNCHANGED <<frameA, messages, isLoading, reqs, showUploadModal>>

\* The paperclip button, shown in the upload context, and the dialog's close.
A_setShowUploadModal(b) ==
    /\ page = "A"
    /\ env.initialContext = "upload"
    /\ showUploadModal # b
    /\ showUploadModal' = b
    /\ UNCHANGED <<frameA, pageVars>>

A_Settle(k, res) ==
    /\ LET st == A_AfterReply(messages, reqs[k], res, isLoading)
       IN  /\ messages' = st.messages
           /\ reqs' = [reqs EXCEPT ![k] = st.req]
           /\ isLoading' = st.isLoading
    /\ showUploadModal' = IF reqs[k].kind = "upload" THEN FALSE ELSE showUploadModal
    /\ UNCHANGED <<frameA, inputMessage>>

\* The fetch settles before the 30 seconds are over.
A_WebhookSettles(k, resp) ==
    /\ page = "A"
    /\ k \in 1..Len(reqs) /\ Outstanding(reqs[k])
    /\ reqs[k].waited < TimeoutMs
    /\ A_Settle(k, A_simulateLLMResponse(resp))

\* setTimeout(() => controller.abort(), 30000) fires: the fetch rejects with
\* an AbortError.
A_Timeout(k) ==
    /\ page = "A"
    /\ k \in 1..Len(reqs) /\ Outstanding(reqs[k])
    /\ reqs[k].waited >= TimeoutMs
    /\ A_Settle(k, Reject(A_TimeoutError))

\* Time passes while a call is outstanding; it does not pass a call's
\* 30 seconds before the abort has run.
A_Tick ==
    /\ page = "A"
    /\ \E k \in 1..Len(reqs) : Outstanding(reqs[k])
    /\ \A k \in 1..Len(reqs) : Outstanding(reqs[k]) => reqs[k].waited < TimeoutMs
    /\ reqs' = [k \in 1..Len(reqs) |->
                  IF Outstanding(reqs[k])
                  THEN [reqs[k] EXCEPT !.waited = @ + TickMs]
                  ELSE reqs[k]]
    /\ UNCHANGED <<frameA, messages, inputMessage, isLoading, showUploadModal>>

-----------------------------------------------------------------------------
(* The App component with the session check (part_000, first 100 lines) *)

\* Users are 1..MaxUsers; 0 is null.
Users == 1..MaxUsers

\* The App's state: its configuration (cfg), what is rendered (status), the
\* position of checkSession (check), the pending getProfile calls of auth
\* events (pending) and the number of auth events so far.
AppState(cfg, status, check, checkUser, currentUser, loading, subscribed, pending, nEvents) ==
    [cfg |-> cfg, status |-> status, check |-> check, checkUser |-> checkUser,
     currentUser |-> currentUser, loading |-> loading, subscribed |-> subscribed,
     pending |-> pending, nEvents |-> nEvents]

\* supabase is the client or null; session is the user of a stored auth
\* session, if any.
AppCfg(supabase, session) == [supabase |-> supabase, session |-> session]

AppOff == AppState(AppCfg(FALSE, 0), "off", "off", 0, 0, FALSE, FALSE, {}, 0)

NoApp == app = AppOff

\* App after its first render, before its effect has run.
InitApp ==
    \E s \in BOOLEAN, u \in {0} \cup Users :
        app = AppState(AppCfg(s, IF s THEN u ELSE 0), "rendered", "off", 0, 0,
                       TRUE, FALSE, {}, 0)

appFrame == <<uploadVars, chatCore, fmt, db>>

\* The effect of App: checkSession() runs up to its await, then
\* supabase.auth.onAuthStateChange is called on the client; on null the
\* property read throws inside the effect and React unmounts the tree.
App_useEffect ==
    /\ app.status = "rendered"
    /\ app' = IF app.cfg.supabase
              THEN [app EXCEPT !.status = "mounted", !.check = "getUser",
                               !.subscribed = TRUE]
              ELSE [app EXCEPT !.status = "crashed", !.check = "getUser"]
    /\ UNCHANGED appFrame

\* await getCurrentUser() of checkSession returns: null without a client, on
\* an error or without a session.
App_getCurrentUserSettles(ok) ==
    /\ app.check = "getUser"
    /\ LET user == IF app.cfg.supabase /\ ok THEN app.cfg.session ELSE 0
       IN  app' = IF user # 0
                  THEN [app EXCEPT !.check = "getProfile", !.checkUser = user]
                  ELSE [app EXCEPT !.check = "done", !.loading = FALSE]
    /\ UNCHANGED appFrame

\* await getProfile(user.id) of checkSession returns a profile or null.
App_getProfileSettles(found) ==
    /\ app.check = "getProfile"
    /\ app' = [app EXCEPT !.check = "done", !.loading = FALSE,
                          !.currentUser = IF found THEN app.checkUser ELSE @]
    /\ UNCHANGED appFrame

\* The auth listener receives SIGNED_IN for u or SIGNED_OUT.
App_onAuthStateChange(event, u) ==
    /\ app.status = "mounted" /\ app.subscribed
    /\ app.nEvents < MaxAuthEvents
    /\ app' = IF event = "SIGNED_IN"
              THEN [app EXCEPT !.pending = @ \cup {u}, !.nEvents = @ + 1]
              ELSE [app EXCEPT !.currentUser = 0, !.nEvents = @ + 1]
    /\ UNCHANGED appFrame

\* await getProfile(session.user.id) of the listener returns.
App_listenerProfileSettles(u, found) ==
    /\ u \in app.pending
    /\ app' = [app EXCEPT !.pending = @ \ {u},
                          !.currentUser = IF found THEN u ELSE @]
    /\ UNCHANGED appFrame

\* handleLogin, called by the AuthPage, which is rendered while no user is
\* set and the session check is over.
handleLogin(u) ==
    /\ app.status = "mounted" /\ ~app.loading /\ app.currentUser = 0
    /\ app.nEvents < MaxAuthEvents
    /\ app' = [app EXCEPT !.currentUser = u, !.nEvents = @ + 1]
    /\ UNCHANGED appFrame

\* handleLogout, called by the HomePage.
handleLogout ==
    /\ app.status = "mounted" /\ ~app.loading /\ app.currentUser # 0
    /\ app' = [app EXCEPT !.currentUser = 0]
    /\ UNCHANGED appFrame

-----------------------------------------------------------------------------
(* The reply of a 2xx answer: JSON.parse of the body, the plain-text      *)
(* fallback and the formatter, applied to bodies and to parsed values     *)

\* response.text() of a 2xx answer, and what JSON.parse makes of it.
ResponseOfBody(text) ==
    LET p == JSONparse(text)
    IN  Response("ok", 200, IF p.ok THEN "json" ELSE "text", text,
                 IF p.ok THEN p.val ELSE JNull)

DosageDoc ==
    JObj(<<Entry("Dosage", JStr("500mg")),
           Entry("Warnings", JArr(<<JStr("avoid alcohol")>>))>>)

Bodies ==
    { "Take with food", "", " ", "ok", "Take\nwith food", "<html>502</html>",
      "{bad", "{\"a\":1,}", "01", "nulls", "[1,2", "'text'",
      "123", "0", "\"hi\"", "\"\"", "null", "true", "false", "  42  ",
      "{}", "[]", "[1,2]", "[null]", "[\"a\",[\"b\"]]",
      "{\"result\":\"Take with food\"}",
      "{\"result\":{\"Dosage\":\"500mg\",\"Warnings\":[\"avoid alcohol\"]}}",
      "{\"result\":\"\",\"data\":\"x\"}",
      "{\"result\":0}", "{\"result\": null}", "{\"result\":[null]}",
      "{\"output\":[\"a\",\"b\"]}", "{\"response\":42}",
      "{\"message\":\"hello\",\"sideEffects\":{\"common\":\"nausea\"}}",
      "{\"result\":1,\"result\":2}" }

\* The aliases formatJsonResponse looks for, in its order.
Aliases == <<"result", "data", "output", "response">>

\* What a field of a parsed answer may hold; JUndefined is an absent field.
FieldValues ==
    { JUndefined, JStr(""), JStr("Take with food"), JNum("0"), JNum("7"),
      JBool(FALSE), JBool(TRUE), JNull, DosageDoc,
      JArr(<<JStr("a"), JStr("b")>>), JArr(<<JNull>>) }

RECURSIVE EntriesOf(_, _)
EntriesOf(f, i) ==
    IF i > Len(Aliases) THEN <<>>
    ELSE (IF f[i] = JUndefined THEN <<>> ELSE <<Entry(Aliases[i], f[i])>>)
         \o EntriesOf(f, i + 1)

\* Objects holding at most MaxFields of the aliases.
AliasObjects ==
    { JObj(EntriesOf(f, 1)) :
        f \in { g \in [1..Len(Aliases) -> FieldValues] :
                  Cardinality({i \in 1..Len(Aliases) : g[i] # JUndefined}) <= MaxFields } }

\* The parsed values formatJsonResponse is applied to.
FormatInputs ==
    AliasObjects
    \cup { JNull, JBool(TRUE), JBool(FALSE), JNum("0"), JNum("7"), JStr(""),
           JStr("hi"), JArr(<<>>), JArr(<<JNum("1"), JNull>>), DosageDoc,
           JObj(<<Entry("sideEffects", JObj(<<Entry("common", JStr("nausea"))>>)),
                  Entry("dose", JNum("2"))>>) }

FmtState(pc, body, data, reply) ==
    [pc |-> pc, body |-> body, data |-> data, reply |-> reply]

NoReply == Reject("")

FmtOff == FmtState("off", "", JUndefined, NoReply)

NoFmt == fmt = FmtOff

\* Either a 2xx answer has arrived with its body, or a value has been
\* parsed and formatJsonResponse is about to be called with it.
InitFmt ==
    \/ \E body \in Bodies : fmt = FmtState("received", body, JUndefined, NoReply)
    \/ \E data \in FormatInputs : fmt = FmtState("parsed", "", data, NoReply)

fmtFrame == <<uploadVars, chatCore, app, db>>

\* simulateLLMResponse from response.text() on.
Fmt_simulateLLMResponse ==
    /\ fmt.pc = "received"
    /\ LET resp == ResponseOfBody(fmt.body)
       IN  fmt' = [fmt EXCEPT !.pc = "done",
                              !.data = IF resp.kind = "json" THEN resp.json ELSE JUndefined,
                              !.reply = ParseAndFormat(resp)]
    /\ UNCHANGED fmtFrame

\* formatJsonResponse(data).
Fmt_formatJsonResponse ==
    /\ fmt.pc = "parsed"
    /\ fmt' = [fmt EXCEPT !.pc = "formatted", !.reply = formatJsonResponse(fmt.data)]
    /\ UNCHANGED fmtFrame


-----------------------------------------------------------------------------
(* The store with several users: the tables, foreign keys, triggers and   *)
(* row level security of the migrations, and the operations of            *)
(* supabase.ts called by any user with any session id                     *)

\* Who calls: a signed-in user, or 0 for a caller with no auth session.
Callers == {0} \cup Users

\* The session ids a caller may name: those created or still to be created.
SessionIds == 1..MaxStoreOps

\* A row of chat_sessions; its id (gen_random_uuid()) is the clock's value
\* when it was created.
SessionRow(id, user, context, title, at) ==
    [id |-> id, user_id |-> user, context |-> context, title |-> title,
     updated_at |-> at]

MessageRow(sid, type, at) == [session_id |-> sid, type |-> type, created_at |-> at]

\* The last operation: who called it, with which session id, whether that
\* session existed, the sessions whose rows it returned, and whether it
\* wrote.
LastOp(op, by, sid, existed, read, wrote) ==
    [op |-> op, by |-> by, sid |-> sid, existed |-> existed, read |-> read,
     wrote |-> wrote]

\* now is the clock of now(); gone holds the sessions deleted together with
\* messages.
DbState(sessions, msgs, now, last, gone) ==
    [sessions |-> sessions, messages |-> msgs, now |-> now, last |-> last,
     gone |-> gone]

DbOff == DbState({}, <<>>, 0, LastOp("off", 0, 0, FALSE, {}, FALSE), {})

NoDb == db = DbOff

InitDb == db = DbState({}, <<>>, 1, LastOp("none", 0, 0, FALSE, {}, FALSE), {})

dbFrame == <<uploadVars, chatCore, app, fmt>>

\* The policies of chat_sessions: user_id = auth.uid(), for authenticated
\* callers.
SessionPolicy(u, s) == u # 0 /\ s.user_id = u

\* The policy of chat_messages: session_id IN (SELECT id FROM chat_sessions
\* WHERE user_id = auth.uid()).
MessagePolicy(u, sid) ==
    \E s \in db.sessions : s.id = sid /\ SessionPolicy(u, s)

\* session_id REFERENCES chat_sessions(id)
ForeignKey(sid) == \E s \in db.sessions : s.id = sid

\* Mutant: deleting a session leaves its messages.
Cascade_None(msgs, ids) == msgs

\* ON DELETE CASCADE: the messages of the deleted sessions go.
Cascade(msgs, ids) == SelectSeq(msgs, LAMBDA m : m.session_id \notin ids)

\* Mutant: every caller passes the policy.
Selectable_All(u) == db.sessions

\* The rows of chat_sessions a statement of u can see, update or delete.
Selectable(u) == {s \in db.sessions : SessionPolicy(u, s)}

\* ORDER BY updated_at DESC (the clock gives each row a time of its own).
RECURSIVE OrderByUpdatedDesc(_)
OrderByUpdatedDesc(S) ==
    IF S = {} THEN <<>>
    ELSE LET top == CHOOSE s \in S : \A t \in S : t.updated_at <= s.updated_at
         IN  <<top>> \o OrderByUpdatedDesc(S \ {top})

\* What getChatSessions returns to u.
Db_SessionList(u) ==
    IF u = 0 THEN <<>>
    ELSE OrderByUpdatedDesc({s \in Selectable(u) : s.user_id = u})

Tick(op, by, sid, read, wrote) ==
    [db EXCEPT !.now = @ + 1,
               !.last = LastOp(op, by, sid, ForeignKey(sid), read, wrote)]

\* createChatSession: no row without a signed-in user; the row gets the
\* caller's id, which the insert policy accepts.
Db_createChatSession(u, context) ==
    /\ db.now <= MaxStoreOps
    /\ db' = IF u = 0 THEN Tick("create", u, 0, {}, FALSE)
             ELSE [Tick("create", u, db.now, {db.now}, TRUE) EXCEPT
                      !.sessions = @ \cup {SessionRow(db.now, u, context, "New Chat", db.now)}]
    /\ UNCHANGED dbFrame

\* getChatSessions
Db_getChatSessions(u) ==
    /\ db.now <= MaxStoreOps
    /\ db' = Tick("getSessions", u, 0,
                  {Db_SessionList(u)[i].id : i \in 1..Len(Db_SessionList(u))}, FALSE)
    /\ UNCHANGED dbFrame

\* insertChatMessage: the row is stored if its session exists and the
\* policy's check accepts it; the session's row is not touched.
Db_insertChatMessage(u, sid, type) ==
    /\ db.now <= MaxStoreOps
    /\ db' = IF ForeignKey(sid) /\ MessagePolicy(u, sid)
             THEN [Tick("insert", u, sid, {sid}, TRUE) EXCEPT
                      !.messages = Append(@, MessageRow(sid, type, db.now))]
             ELSE Tick("insert", u, sid, {}, FALSE)
    /\ UNCHANGED dbFrame

\* getChatMessages
Db_getChatMessages(u, sid) ==
    /\ db.now <= MaxStoreOps
    /\ db' = Tick("getMessages", u, sid,
                  {db.messages[i].session_id : i \in
                      {j \in 1..Len(db.messages) :
                          /\ db.messages[j].session_id = sid
                          /\ MessagePolicy(u, db.messages[j].session_id)}},
                  FALSE)
    /\ UNCHANGED dbFrame

\* Mutant: the update also writes the column's default into context.
Retitled_ResetsContext(s, title, at) ==
    SessionRow(s.id, s.user_id, "question", title, at)

\* .update({ title, updated_at }): the row with the two columns set.
Retitled(s, title, at) == SessionRow(s.id, s.user_id, s.context, title, at)

\* updateChatSessionTitle: the rows with that id the caller may update get
\* the title and updated_at.
Db_updateChatSessionTitle(u, sid, title) ==
    /\ db.now <= MaxStoreOps
    /\ LET hit == {s \in Selectable(u) : s.id = sid}
       IN  db' = [Tick("update", u, sid, {}, hit # {}) EXCEPT
                     !.sessions = (@ \ hit)
                         \cup {Retitled(s, title, db.now) : s \in hit}]
    /\ UNCHANGED dbFrame

\* deleteChatSession: the rows with that id the caller may delete go, and
\* their messages with them.
Db_deleteChatSession(u, sid) ==
    /\ db.now <= MaxStoreOps
    /\ LET hit == {s \in Selectable(u) : s.id = sid}
           ids == {s.id : s \in hit}
       IN  db' = [Tick("delete", u, sid, {}, hit # {}) EXCEPT
                     !.sessions = @ \ hit,
                     !.messages = Cascade(@, ids),
                     !.gone = @ \cup {i \in ids :
                                \E j \in 1..Len(db.messages) :
                                    db.messages[j].session_id = i}]
    /\ UNCHANGED dbFrame

NoSide == NoApp /\ NoFmt /\ NoDb

-----------------------------------------------------------------------------
(* The upload dialog as a state machine *)

UploadInit ==
    /\ uploadError = ""
    /\ isProcessing = FALSE
    /\ modalExtractedText = ""
    /\ uploadedFile = NoFile
    /\ extractions = {}
    /\ nUploads = 0
    /\ offered = {}
    /\ extractCalls = {}
    /\ produced = {}
    /\ lastOp = [op |-> "init", file |-> NoFile]
    /\ uploadTab = "file"
    /\ urlInput = ""
    /\ emitted = {}

-----------------------------------------------------------------------------
(* The chat pages as a state machine *)

Env(supabase, signedIn, webhookUrl, initialContext, sessionId, initialExtractedText) ==
    [supabase |-> supabase, signedIn |-> signedIn, webhookUrl |-> webhookUrl,
     initialContext |-> initialContext, sessionId |-> sessionId,
     initialExtractedText |-> initialExtractedText]

OcrText == "[OCR Text Extracted from: rx.png]\n\nTake 1 tablet daily"

\* What the user types, and the extracted texts handed to a page.
InputTexts == {"What is ibuprofen?", "  "}

ExtractedTexts == {OcrText}

\* Configurations (import.meta.env, the auth state) and props of the pages.
EnvsA ==
    { Env(FALSE, FALSE, u, c, 0, "") :
        u \in {"ok", "missing", "malformed"}, c \in {"upload", "question"} }

EnvsB ==
    { Env(TRUE, TRUE, "ok", "upload", 0, OcrText),
      Env(TRUE, TRUE, "malformed", "question", 1, ""),
      Env(TRUE, TRUE, "missing", "upload", 0, OcrText),
      Env(TRUE, FALSE, "ok", "question", 0, ""),
      Env(FALSE, FALSE, "ok", "medicine-search", 0, "") }

NoEnv == Env(FALSE, FALSE, "missing", "", 0, "")

\* No chat page is mounted.
NoChat ==
    /\ page = "none"
    /\ env = NoEnv
    /\ messages = <<>>
    /\ inputMessage = ""
    /\ isLoading = FALSE
    /\ reqs = <<>>
    /\ showUploadModal = FALSE
    /\ currentSessionId = 0
    /\ extractedText = ""
    /\ chatSessions = {}
    /\ timer = "off"
    /\ ops = <<>>
    /\ nSessions = 0
    /\ nProvided = 0
    /\ dbSessions = {}
    /\ dbMessages = <<>>

InitUpload == UploadInit /\ NoChat /\ NoSide

\* ChatbotPage.tsx after its mount effect: the welcome message is shown.
InitA ==
    /\ page = "A"
    /\ env \in EnvsA
    /\ messages = <<Msg(0, "bot", getWelcomeMessage(env.initialContext), FALSE, "")>>
    /\ currentSessionId = 0
    /\ extractedText = ""
    /\ ops = <<>>
    /\ nSessions = 0
    /\ dbSessions = {}
    /\ dbMessages = <<>>

\* part_003 after its first render, initializeChat at its first await; a
\* session named by the props exists in the store with its welcome message.
InitB ==
    /\ page = "B"
    /\ env \in EnvsB
    /\ messages = <<>>
    /\ currentSessionId = env.sessionId
    /\ extractedText = env.initialExtractedText
    /\ ops = <<Op("init", "getUser", 0, FALSE)>>
    /\ nSessions = (IF env.sessionId # 0 THEN 1 ELSE 0)
    /\ dbSessions = (IF env.sessionId # 0 THEN {env.sessionId} ELSE {})
    /\ dbMessages = (IF env.sessionId # 0
                     THEN <<Row(env.sessionId, "bot",
                                getWelcomeMessage(env.initialContext), "")>>
                     ELSE <<>>)

Init ==
    /\ UploadInit
    /\ NoSide
    /\ InitA \/ InitB
    /\ inputMessage = ""
    /\ isLoading = FALSE
    /\ reqs = <<>>
    /\ showUploadModal = FALSE
    /\ chatSessions = {}
    /\ timer = "off"
    /\ nProvided = 0

NextA ==
    \/ A_handleSendMessage
    \/ \E text \in ExtractedTexts, fileName \in {"rx.png", ""} :
          A_handleFileUpload(text, fileName)
    \/ \E txt \in InputTexts : A_setInputMessage(txt)
    \/ \E b \in BOOLEAN : A_setShowUploadModal(b)
    \/ \E k \in 1..MaxActs, resp \in Responses : A_WebhookSettles(k, resp)
    \/ \E k \in 1..MaxActs : A_Timeout(k)
    \/ A_Tick

NextB ==
    \/ B_handleSendMessage
    \/ B_timerFires
    \/ \E txt \in InputTexts : B_setInputMessage(txt)
    \/ \E text \in ExtractedTexts : B_handleFileUpload(text)
    \/ \E k \in 1..MaxActs, dbOk \in BOOLEAN : B_UserInsertSettles(k, dbOk)
    \/ \E k \in 1..MaxActs, resp \in Responses : B_WebhookSettles(k, resp)
    \/ \E k \in 1..MaxActs, dbOk \in BOOLEAN : B_BotInsertSettles(k, dbOk)
    \/ B_Tick
    \/ B_initGetUser
    \/ \E dbOk \in BOOLEAN : B_initLoadSessions(dbOk)
    \/ \E i \in 1..MaxActs, dbOk \in BOOLEAN : B_LoadSettles(i, dbOk)
    \/ B_initGetSessions
    \/ \E i \in 1..MaxActs, dbOk \in BOOLEAN : B_CreateSettles(i, dbOk)
    \/ \E i \in 1..MaxActs, dbOk \in BOOLEAN : B_RefreshSettles(i, dbOk)
    \/ \E i \in 1..MaxActs, dbOk \in BOOLEAN : B_WelcomeSettles(i, dbOk)
    \/ handleNewChat
    \/ \E s \in 1..MaxActs : handleLoadSession(s)
    \/ \E s \in 1..MaxActs : handleDeleteSession(s)
    \/ \E i \in 1..MaxActs, dbOk \in BOOLEAN : B_DeleteSettles(i, dbOk)

Next == NextA \/ NextB

Spec == Init /\ [][Next]_vars

NextApp ==
    \/ App_useEffect
    \/ \E ok \in BOOLEAN : App_getCurrentUserSettles(ok)
    \/ \E found \in BOOLEAN : App_getProfileSettles(found)
    \/ \E event \in {"SIGNED_IN", "SIGNED_OUT"}, u \in Users : App_onAuthStateChange(event, u)
    \/ \E u \in Users, found \in BOOLEAN : App_listenerProfileSettles(u, found)
    \/ \E u \in Users : handleLogin(u)
    \/ handleLogout

InitAppAlone == UploadInit /\ NoChat /\ InitApp /\ NoFmt /\ NoDb

\* C12: with the store's URL or key absent the App still starts: its effect
\* never throws.
C12_AppStartsWithoutStore ==
    ~app.cfg.supabase => app.status # "crashed"

SpecApp == InitAppAlone /\ [][NextApp]_vars

NextFmt ==
    \/ Fmt_simulateLLMResponse
    \/ Fmt_formatJsonResponse

InitFmtAlone == UploadInit /\ NoChat /\ NoApp /\ InitFmt /\ NoDb

SpecFormat == InitFmtAlone /\ [][NextFmt]_vars

NextDb ==
    \/ \E u \in Callers, context \in Contexts : Db_createChatSession(u, context)
    \/ \E u \in Callers : Db_getChatSessions(u)
    \/ \E u \in Callers, sid \in SessionIds, type \in {"user", "bot"} :
            Db_insertChatMessage(u, sid, type)
    \/ \E u \in Callers, sid \in SessionIds : Db_getChatMessages(u, sid)
    \/ \E u \in Callers, sid \in SessionIds : Db_updateChatSessionTitle(u, sid, "Renamed")
    \/ \E u \in Callers, sid \in SessionIds : Db_deleteChatSession(u, sid)

InitDbAlone == UploadInit /\ NoChat /\ NoApp /\ NoFmt /\ InitDb

SpecStore == InitDbAlone /\ [][NextDb]_vars

-----------------------------------------------------------------------------
\* What is typed into the URL field.
UrlInputs ==
    { "", "  ", "not a url", "https://", "https://example.com/rx.pdf" }

NextUpload ==
    \/ \E file \in Files : handleFileValidation(file)
    \/ \E file \in Files, io \in ReadOutcomes : ExtractionSettles(file, io)
    \/ uploadDifferentFile
    \/ \E tab \in {"file", "url"} : uploadTabClick(tab)
    \/ \E url \in UrlInputs : setUrlInput(url)
    \/ handleUrlSubmit
    \/ \E outcome \in SaveOutcomes : handleProcessFile(outcome)

SpecUpload == InitUpload /\ [][NextUpload]_vars

-----------------------------------------------------------------------------
(* Claims about the upload dialog, checked under SpecUpload *)

Validated(file) == file.type \in SUPPORTED_FILE_TYPES /\ file.size <= MAX_FILE_SIZE

\* C1: a file whose declared MIME type is not in the allow-list is rejected
\* by handleFileValidation: the upload error is set, extractTextFromFile is
\* never invoked on it and no extracted text is ever produced for it.
C1_DisallowedTypeRejected ==
    /\ \A f \in offered :
         f.type \notin SUPPORTED_FILE_TYPES =>
            /\ f \notin extractCalls
            /\ f \notin extractions
            /\ \A p \in produced : p.file # f
    /\ (lastOp.op = "select" /\ lastOp.file.type \notin SUPPORTED_FILE_TYPES) =>
            /\ uploadError # ""
            /\ modalExtractedText = ""
            /\ ~isProcessing

\* A file of a disallowed type (and of an allowed size) has just been
\* rejected, after another file went through extraction.
C1_Witness ==
    /\ lastOp.op = "select"
    /\ lastOp.file.type \notin SUPPORTED_FILE_TYPES
    /\ lastOp.file.size <= MAX_FILE_SIZE
    /\ uploadError = TypeError
    /\ lastOp.file \notin extractCalls
    /\ produced # {}

\* C2: a file larger than 10 MB is rejected whatever its MIME type: the
\* upload error is set, extractTextFromFile is never invoked on it and no
\* extracted text is ever produced for it.
C2_OversizeRejected ==
    /\ \A f \in offered :
         f.size > MAX_FILE_SIZE =>
            /\ f \notin extractCalls
            /\ f \notin extractions
            /\ \A p \in produced : p.file # f
    /\ (lastOp.op = "select" /\ lastOp.file.size > MAX_FILE_SIZE) =>
            /\ uploadError # ""
            /\ modalExtractedText = ""
            /\ ~isProcessing

\* A file of an allowed type but above the limit has just been rejected for
\* its size, after a file of exactly the limit was accepted and extracted.
C2_Witness ==
    /\ lastOp.op = "select"
    /\ lastOp.file.type \in SUPPORTED_FILE_TYPES
    /\ lastOp.file.size > MAX_FILE_SIZE
    /\ uploadError = SizeError
    /\ lastOp.file \notin extractCalls
    /\ \E p \in produced : p.file.size = MAX_FILE_SIZE /\ p.ok

\* C3: for a validated file, extractTextFromFile never resolves to the empty
\* string: it resolves to a non-empty string or rejects.
C3_NeverResolvesEmpty ==
    \A p \in produced : (Validated(p.file) /\ p.ok) => p.value # ""

-----------------------------------------------------------------------------
(* Claims about the chat pages, checked under Spec *)

\* The messages of the transcript that carry the id of send k's placeholder.
PlaceholderOf(k) == {j \in 1..Len(messages) : messages[j].id = reqs[k].loadId}

\* Send k's placeholder is in the transcript once, showing the send's reply.
ReplyShown(k) ==
    /\ Cardinality(PlaceholderOf(k)) = 1
    /\ \A j \in PlaceholderOf(k) :
         /\ messages[j].type = "bot"
         /\ messages[j].content = reqs[k].reply
         /\ ~messages[j].isLoading

\* Nothing is awaited and no timer is pending.
Quiescent ==
    /\ \A k \in 1..Len(reqs) : ~InFlight(reqs[k])
    /\ \A i \in 1..Len(ops) : ~Pending(i)
    /\ timer # "armed"

\* No request to the store has failed.
NoStoreFailure ==
    /\ \A i \in 1..Len(ops) : ~ops[i].failed
    /\ \A k \in 1..Len(reqs) :
         reqs[k].userInsert # "failed" /\ reqs[k].botInsert # "failed"

\* What the round trip compares: type, content and attachment type, in order.
Transcript(m) ==
    [j \in 1..Len(m) |-> [type |-> m[j].type, content |-> m[j].content,
                          att |-> m[j].att]]

\* The webhook URL lets simulateLLMResponse reach its fetch.
UrlUsable ==
    IF page = "A" THEN env.webhookUrl = "ok" ELSE env.webhookUrl # "missing"

\* C4: on the page with the store, in every interleaving of sends (button,
\* Enter key, automatic send of the initial extracted text) and webhook
\* completions in which no store request failed, at most one webhook call is
\* outstanding.
C4_OneOutstandingCall ==
    (page = "B" /\ NoStoreFailure) =>
        Cardinality({k \in 1..Len(reqs) : Outstanding(reqs[k])}) <= 1

\* C5: a webhook call that has not been answered within the 30 seconds of the
\* timeout window is aborted: no call stays outstanding beyond them.
C5_CallAbortedAtTimeout ==
    \A k \in 1..Len(reqs) :
        Outstanding(reqs[k]) => reqs[k].waited <= TimeoutMs

\* C6: on a page where the user never switched the session and no store
\* request failed, every failed send has become exactly one bot message,
\* shown in place of its loading placeholder.
C6_FailureBecomesOneMessage ==
    ((page = "A" \/ Len(ops) <= 1) /\ NoStoreFailure) =>
        \A k \in 1..Len(reqs) :
            (reqs[k].pc = "done" /\ reqs[k].failed) => ReplyShown(k)

\* C7: with a store and a current session, once every send has been answered
\* and no store request has failed, the stored messages of the session,
\* reloaded and mapped as loadChatMessages does, are the displayed transcript
\* (for a transcript that was not replaced since its sends).
C7_ReloadReproducesTranscript ==
    ( /\ page = "B" /\ env.supabase
      /\ currentSessionId # 0
      /\ Quiescent /\ NoStoreFailure
      /\ \A k \in 1..Len(reqs) : ~reqs[k].wiped )
    => Transcript(FormattedMessages(getChatMessages(currentSessionId)))
         = Transcript(messages)

\* A send adds the user message and the placeholder to the transcript.
SendAppends ==
    Len(reqs') = Len(reqs) + 1 =>
        /\ Len(messages') = Len(messages) + 2
        /\ SubSeq(messages', 1, Len(messages)) = messages
        /\ messages'[Len(messages) + 1].type = "user"
        /\ messages'[Len(messages) + 1].id = UserId(Len(reqs'))
        /\ reqs'[Len(reqs')].kind = "send" =>
              messages'[Len(messages) + 1].content = reqs'[Len(reqs')].text

\* What a send has done: never more than one webhook call, exactly one once
\* it is past its inserts if the URL is usable and none if it is not, and,
\* when the handler holds a session id, the insert of the user message
\* issued before the call.
SendOrder(r) ==
    /\ r.calls <= 1
    /\ r.calls = Count(r.log, "call")
    /\ r.pc \in {"fetch", "insertBot", "done"} =>
          r.calls = (IF UrlUsable THEN 1 ELSE 0)
    /\ r.pc = "insertUser" => r.calls = 0
    /\ r.sid # 0 =>
          /\ Count(r.log, "insertUser") = 1
          /\ Before(r.log, "insertUser", "call")
    /\ r.sid = 0 => Count(r.log, "insertUser") = 0

\* C8 (amended): on every accepted send the user message is appended to the
\* local transcript; when the handler holds a session id the insert of the
\* user message into the store is issued before the webhook call; exactly
\* one webhook call is issued when the webhook URL is usable and none when
\* it is not; no call is repeated or retried, also after a failure.
C8_AppendInsertThenOneCall ==
    /\ [](\A k \in 1..Len(reqs) : SendOrder(reqs[k]))
    /\ [][SendAppends]_vars

\* A send that held a session id has failed after its one call, the insert
\* of its user message having been issued first.
C8_Witness ==
    \E k \in 1..Len(reqs) :
        /\ reqs[k].pc = "done" /\ reqs[k].failed
        /\ reqs[k].sid # 0 /\ reqs[k].userInsert = "ok"
        /\ reqs[k].calls = 1
        /\ reqs[k].log = <<"append", "insertUser", "call", "reply", "insertBot", "idle">>

\* C8 as stated: every send that is past its first await has issued the
\* insert of its user message and then exactly one webhook call.
C8_Original ==
    \A k \in 1..Len(reqs) :
        reqs[k].pc \in {"fetch", "insertBot", "done"} =>
            /\ reqs[k].calls = 1
            /\ Count(reqs[k].log, "insertUser") = 1
            /\ Before(reqs[k].log, "insertUser", "call")

\* C9: one extracted text is consumed by at most one send: the sends that
\* carried extracted text are no more than the extracted texts the page was
\* given (the initial one and those handed over by handleFileUpload), here
\* when no store request failed.
C9_ExtractedTextConsumedOnce ==
    (page = "B" /\ NoStoreFailure) =>
        Cardinality({k \in 1..Len(reqs) : reqs[k].att = "image"})
            <= nProvided + (IF env.initialExtractedText # "" THEN 1 ELSE 0)

\* The rest of a send does not depend on the outcome of the insert of its
\* user message.
InsertOutcomeIgnored(r) ==
    LET a == B_AfterUserInsert(messages, r, TRUE, isLoading)
        b == B_AfterUserInsert(messages, r, FALSE, isLoading)
    IN  /\ a.messages = b.messages
        /\ a.isLoading = b.isLoading
        /\ [a.req EXCEPT !.userInsert = "any"] = [b.req EXCEPT !.userInsert = "any"]

\* A send with a failed insert has gone on: the call was issued if the URL
\* is set, and once done the reply is shown (in a transcript that was not
\* replaced meanwhile).
FailedInsertNotFatal(k) ==
    LET r == reqs[k]
    IN  /\ r.userInsert = "failed" =>
              /\ r.pc \in {"fetch", "insertBot", "done"}
              /\ UrlUsable => r.calls = 1
        /\ r.botInsert = "failed" => r.pc = "done"
        /\ (r.pc = "done" /\ ~r.wiped) => ReplyShown(k)

\* The handler ends with setIsLoading(false), also after a failed insert.
EndsIdle ==
    \A k \in 1..Len(reqs) :
        (reqs[k].pc # "done" /\ reqs'[k].pc = "done") => ~isLoading'

\* C10: a failed insert of the user message or of the bot reply (store not
\* configured, error result, exception) does not stop the send: the webhook
\* call is issued, the reply is shown in the local transcript and the
\* pipeline returns to Idle.
C10_InsertFailureNotFatal ==
    /\ [](page = "B" =>
            \A k \in 1..Len(reqs) :
                /\ reqs[k].pc = "insertUser" => InsertOutcomeIgnored(reqs[k])
                /\ (reqs[k].userInsert = "failed" \/ reqs[k].botInsert = "failed")
                      => FailedInsertNotFatal(k))
    /\ [][page = "B" => EndsIdle]_vars

\* With a configured store both inserts of a send failed; its one call was
\* made, the reply is shown and the page is idle.
C10_Witness ==
    /\ page = "B" /\ env.supabase
    /\ ~isLoading
    /\ \E k \in 1..Len(reqs) :
         /\ reqs[k].pc = "done" /\ ~reqs[k].failed
         /\ reqs[k].userInsert = "failed" /\ reqs[k].botInsert = "failed"
         /\ reqs[k].calls = 1
         /\ ReplyShown(k)

\* The failures of a call, by class: the error simulateLLMResponse of
\* ChatbotPage.tsx throws for a 404, a 500, a 403, another non-2xx status,
\* an unreachable network and a timeout.
A_FailureClasses ==
    { A_simulateLLMResponse(Response("ok", 404, "text", "not found", JNull)),
      A_simulateLLMResponse(Response("ok", 500, "text", "workflow failed", JNull)),
      A_simulateLLMResponse(Response("ok", 403, "text", "forbidden", JNull)),
      A_simulateLLMResponse(Response("ok", 502, "text", "bad gateway", JNull)),
      A_simulateLLMResponse(Response("error", 0, "text", "", JNull)),
      Reject(A_TimeoutError) }

\* What the transcript shows for send k once its call has failed with res.
A_ShownAfter(k, res) ==
    LET m == A_AfterReply(messages, reqs[k], res, isLoading).messages
        j == CHOOSE i \in 1..Len(m) : m[i].id = reqs[k].loadId
    IN  m[j].content

\* C11: the bot message shown after a failed request distinguishes the
\* failure class: whatever send is outstanding, two failures of different
\* classes put different texts into the chat.
C11_FailureClassDistinguished ==
    \A k \in 1..Len(reqs) :
        (page = "A" /\ Outstanding(reqs[k]) /\ PlaceholderOf(k) # {}) =>
            \A f1, f2 \in A_FailureClasses :
                f1 # f2 => A_ShownAfter(k, f1) # A_ShownAfter(k, f2)

-----------------------------------------------------------------------------
(* Claims about the formatter and the reply of a 2xx answer (SpecFormat) *)

\* The value of the first alias that data has, JUndefined if it has none.
RECURSIVE FirstPresent(_, _)
FirstPresent(data, i) ==
    IF i > Len(Aliases) THEN JUndefined
    ELSE IF GetProp(data, Aliases[i]) # JUndefined THEN GetProp(data, Aliases[i])
    ELSE FirstPresent(data, i + 1)

\* The value as is if a string, its rendering if an object or array, its
\* string form otherwise.
Shown(v) ==
    IF v.t = "string" THEN v.s
    ELSE IF v.t \in {"object", "array"} THEN formatObjectToText(v)
    ELSE v.s

\* C13: for a parsed object that has one of result, data, output, response,
\* formatJsonResponse shows the value of the first of them that is present
\* (looked at where the formatter returns).
C13_FirstPresentFieldSelected ==
    (/\ fmt.pc = "formatted"
     /\ fmt.data.t = "object"
     /\ FirstPresent(fmt.data, 1) # JUndefined
     /\ fmt.reply.ok)
        => fmt.reply.value = Shown(FirstPresent(fmt.data, 1))

\* C14: formatJsonResponse returns a display string for every parsed JSON
\* value: it never throws.
C14_FormatterTotal ==
    fmt.pc \in {"formatted", "done"} => fmt.reply.ok

\* C15: for {"result": {"Dosage": "500mg", "Warnings": ["avoid alcohol"]}}
\* the reply contains "Dosage: 500mg", and "1. avoid alcohol" after a
\* "Warnings" heading.
C15_DosageExample ==
    (fmt.pc = "done" /\ fmt.data = JObj(<<Entry("result", DosageDoc)>>))
        => /\ fmt.reply.ok
           /\ Contains(fmt.reply.value, "Dosage: 500mg")
           /\ Contains(fmt.reply.value, "1. avoid alcohol")
           /\ Contains(fmt.reply.value, "Warnings")
           /\ IndexOf(fmt.reply.value, "Warnings") < IndexOf(fmt.reply.value, "1. avoid alcohol")

\* A 2xx answer whose body is not valid JSON has been turned into a reply.
NonJsonAnswered == fmt.pc = "done" /\ ~JSONparse(fmt.body).ok

\* C16: a 2xx answer whose body is not valid JSON is a success; the reply is
\* the raw body if the body is not empty, and the fixed sentence
\* "Received response from workflow but could not parse it." if it is.
C16_NonJsonBodyVerbatimUnlessEmpty ==
    NonJsonAnswered =>
        /\ fmt.reply.ok
        /\ fmt.body # "" => fmt.reply.value = fmt.body
        /\ fmt.body = "" =>
             fmt.reply.value = "Received response from workflow but could not parse it."

C16_Witness ==
    NonJsonAnswered /\ fmt.body = "<html>502</html>" /\ fmt.reply.value = fmt.body

\* C16 as stated: the reply is the raw body for every body that is not
\* valid JSON.
C16_Original ==
    NonJsonAnswered => fmt.reply.ok /\ fmt.reply.value = fmt.body

-----------------------------------------------------------------------------
(* The body of the webhook request *)

\* The signed-in user as the page holds it, and new Date().toISOString().
UserEmail == "pat@example.com"
UserName == "Pat"
Timestamp == "2025-09-06T17:34:14.000Z"

\* A string id as the page holds it: null for none.
SessionIdText(sid) == IF sid = 0 THEN "" ELSE "session-" \o NatToString(sid)

\* ChatbotPage.tsx: payload of simulateLLMResponse, with
\* getContextSpecificPayload inside.
A_Payload(r) ==
    JObj(<<Entry("data", JObj(<<Entry("message", JStr(r.text)),
                                Entry("context", JStr(env.initialContext))>>)),
           Entry("userEmail", JStr(UserEmail)),
           Entry("userName", JStr(UserName)),
           Entry("timestamp", JStr(Timestamp)),
           Entry("source", JStr("medilens-chatbot"))>>)

\* part_003: payload of simulateLLMResponse.
B_Payload(r) ==
    JObj(<<Entry("message", JStr(r.text)),
           Entry("attachment", JStr(IF r.att # "" THEN r.att ELSE "text")),
           Entry("sessionid", JStr(IF SessionIdText(r.sid) # ""
                                   THEN SessionIdText(r.sid) ELSE "unknown"))>>)

\* The body of the request send k has made.
Payload(k) == IF page = "A" THEN A_Payload(reqs[k]) ELSE B_Payload(reqs[k])

\* C17: the body of every webhook request has, at its top level, message
\* (the text sent), context (the page's context), userEmail, userName and
\* timestamp, and sessionId (the session's id) when the send has a session.
C17_PayloadFields ==
    \A k \in 1..Len(reqs) :
        reqs[k].calls > 0 =>
            /\ GetProp(Payload(k), "message") = JStr(reqs[k].text)
            /\ GetProp(Payload(k), "context") = JStr(env.initialContext)
            /\ GetProp(Payload(k), "userEmail") = JStr(UserEmail)
            /\ GetProp(Payload(k), "userName") = JStr(UserName)
            /\ GetProp(Payload(k), "timestamp") # JUndefined
            /\ reqs[k].sid # 0 =>
                 GetProp(Payload(k), "sessionId") = JStr(SessionIdText(reqs[k].sid))

-----------------------------------------------------------------------------
(* Claims about the store (SpecStore) *)

\* C18: every stored message references exactly one existing session; a
\* delete leaves no message of the deleted session, and an insert for a
\* session that does not exist stores nothing.
C18_MessagesBelongToSessions ==
    /\ \A i \in 1..Len(db.messages) :
          Cardinality({s \in db.sessions : s.id = db.messages[i].session_id}) = 1
    /\ (db.last.op = "delete" /\ db.last.wrote) =>
          \A i \in 1..Len(db.messages) : db.messages[i].session_id # db.last.sid
    /\ (db.last.op = "insert" /\ ~db.last.existed) => ~db.last.wrote

\* An insert was made for a session that had been deleted with its messages.
C18_Witness ==
    /\ db.last.op = "insert"
    /\ db.last.sid \in db.gone
    /\ ~db.last.wrote

\* The sessions u owns, and the messages in them.
SessionsOf(u) == {s \in db.sessions : s.user_id = u}

MessagesOf(u) ==
    SelectSeq(db.messages, LAMBDA m : \E s \in SessionsOf(u) : s.id = m.session_id)

\* The last operation returned rows of the caller's own sessions only.
ReadsOwnOnly ==
    \A sid \in db.last.read :
        \E s \in SessionsOf(db.last.by) : s.id = sid /\ db.last.by # 0

\* A step leaves the sessions and messages of everyone but the caller as
\* they were.
OthersUntouched ==
    \A v \in Users :
        v # db'.last.by => SessionsOf(v)' = SessionsOf(v) /\ MessagesOf(v)' = MessagesOf(v)

\* C19: no store operation called by one user, with any session id, reads,
\* changes or deletes a session or message owned by another user.
C19_NoCrossUserAccess == []ReadsOwnOnly /\ [][OthersUntouched]_vars

\* A user has called deleteChatSession with the id of another user's
\* session, which is still there with its messages.
C19_Witness ==
    /\ db.last.op = "delete"
    /\ db.last.by # 0
    /\ \E s \in db.sessions :
          /\ s.id = db.last.sid
          /\ s.user_id # db.last.by
          /\ \E i \in 1..Len(db.messages) : db.messages[i].session_id = s.id

\* The session of the latest message among those u can list.
LatestMessageSession(u) ==
    LET mine == MessagesOf(u)
    IN  IF mine = <<>> THEN 0 ELSE mine[Len(mine)].session_id

\* C20: getChatSessions lists the session with the most recent message
\* first.
C20_RecentMessageSessionFirst ==
    \A u \in Users :
        LatestMessageSession(u) # 0 =>
            Db_SessionList(u)[1].id = LatestMessageSession(u)

\* A step leaves the owner and the context of every session that stays, and
\* every message that stays: the messages after the step are those of the
\* sessions still there, as they were and in their order, and then the new
\* ones.
RowsKept ==
    LET ids == {s.id : s \in db'.sessions}
        old == SelectSeq(db.messages, LAMBDA m : m.session_id \in ids)
    IN  /\ \A s \in db.sessions : \A t \in db'.sessions :
              s.id = t.id => s.context = t.context /\ s.user_id = t.user_id
        /\ Len(db'.messages) >= Len(old)
        /\ SubSeq(db'.messages, 1, Len(old)) = old

\* C21: no store operation changes the context of a session or a stored
\* message: updateChatSessionTitle writes title and updated_at only, an
\* insert of a message leaves the sessions as they are, and the messages
\* that stay are never rewritten.
C21_ContextAndMessagesImmutable ==
    /\ [][RowsKept]_vars
    /\ [][db'.last.op = "insert" => db'.sessions = db.sessions]_vars

\* A session created with the context upload has been renamed and has a
\* message.
C21_Witness ==
    /\ db.last.op = "update"
    /\ db.last.wrote
    /\ \E s \in db.sessions :
          /\ s.id = db.last.sid
          /\ s.title = "Renamed"
          /\ s.context = "upload"
          /\ \E i \in 1..Len(db.messages) : db.messages[i].session_id = s.id

\* The step was a selection of a file that fails a check, or a submission
\* of a URL that new URL() does not take.
LocalValidationFailed ==
    \/ /\ lastOp'.op = "select"
       /\ \/ lastOp'.file.type \notin SUPPORTED_FILE_TYPES
          \/ lastOp'.file.size > MAX_FILE_SIZE
    \/ /\ lastOp'.op = "url"
       /\ ~NewUrlOk(Trim(urlInput))

\* C22: a local validation failure (file type, file size, URL) sets the
\* inline error and nothing else: no extraction starts, nothing leaves the
\* dialog (no onSubmit, no onClose, no write to the store), and the chat
\* transcript, the sends and the store are as before.
C22_ValidationFailureOnlySetsError ==
    [][LocalValidationFailed =>
          /\ uploadError' \in {TypeError, SizeError, UrlError}
          /\ emitted' = emitted
          /\ UNCHANGED <<isProcessing, modalExtractedText, uploadedFile,
                         extractions, extractCalls, produced>>
          /\ UNCHANGED <<messages, reqs, dbSessions, dbMessages>>]_vars

\* A URL was rejected after the dialog had handed a processed file on.
C22_Witness ==
    /\ lastOp.op = "url"
    /\ uploadError = UrlError
    /\ \E c \in emitted : c.call = "onSubmit"

\* C23: for a plain-text file extractTextFromFile returns the file's text
\* as it is: no prefix, no trimming, no other change.
C23_PlainTextVerbatim ==
    \A p \in produced :
        (p.file.type = "text/plain" /\ p.ok) => p.value = p.file.text

\* The texts of hello.txt and of a file with white space at both ends have
\* been extracted.
C23_Witness ==
    /\ \E p \in produced : p.file.name = "hello.txt" /\ p.ok /\ p.value = "hello"
    /\ \E p \in produced : p.file.name = "notes.txt" /\ p.ok /\ p.value = " a\tb \n"

NoTextPlaceholder(name) ==
    "[Image processed: " \o name \o "]\n\nNo readable text was found in this image. The image may be too blurry, have poor contrast, or contain no text content."

\* C24: for an image whose recognized text is empty or white space,
\* extractTextFromFile returns the placeholder and never ""; when the
\* recognition fails it rejects with a message that carries the reason.
C24_EmptyOcrGivesPlaceholder ==
    \A p \in produced :
        StartsWith(p.file.type, "image/") =>
            /\ p.ok => p.value # ""
            /\ (p.ok /\ Trim(p.file.text) = "") => p.value = NoTextPlaceholder(p.file.name)
            /\ ~p.ok => /\ StartsWith(p.value, "Failed to extract text from image: ")
                        /\ Len(p.value) > Len("Failed to extract text from image: ")

\* An image with nothing but white space on it has been processed, and the
\* recognition of another has failed.
C24_Witness ==
    /\ \E p \in produced : p.file.name = "blank.png" /\ p.ok
    /\ \E p \in produced : StartsWith(p.file.type, "image/") /\ ~p.ok

\* The printable text of a PDF, stripped.
PdfText(file) == Trim(ReplaceNonPrintable(file.text))

\* C25: for a PDF extractTextFromFile returns the placeholder when the
\* stripped printable text is shorter than 50 characters and the extracted
\* text when it has 50 characters or more.
C25_PdfThresholdAt50 ==
    \A p \in produced :
        (p.file.type = "application/pdf" /\ p.ok) =>
            /\ Len(PdfText(p.file)) < 50 => StartsWith(p.value, "[PDF file: ")
            /\ Len(PdfText(p.file)) >= 50 =>
                  /\ ~StartsWith(p.value, "[PDF file: ")
                  /\ Contains(p.value, PdfText(p.file))

\* Operation i is in createNewChatSession.
Creating(i) == Pending(i) /\ ops[i].pc \in {"create", "refresh", "welcome"}

\* The user message and the placeholder (or reply) of send k are displayed.
Displayed(k, m) ==
    /\ \E j \in 1..Len(m) : m[j].id = UserId(k) /\ m[j].type = "user"
    /\ \E j \in 1..Len(m) : m[j].id = LoadingId(k)

\* C26: a message sent while a session is being created is not lost: the step
\* that completes createNewChatSession keeps the user message and the
\* placeholder or reply of every send that was displayed before it.
C26_SendSurvivesSessionCreation ==
    [][\A i \in 1..Len(ops) :
          (Creating(i) /\ ops'[i].pc = "done") =>
              \A k \in 1..Len(reqs) :
                  Displayed(k, messages) => Displayed(k, messages')]_vars

\* The answered placeholder of send k is in the transcript.
ReplyDisplayed(k) ==
    \E j \in 1..Len(messages) :
        messages[j].id = LoadingId(k) /\ ~messages[j].isLoading

\* Every stored bot row that is not a welcome message is the reply of a send
\* made from the row's session.
RepliesStoredInOwnSession ==
    \A j \in 1..Len(dbMessages) :
        (dbMessages[j].type = "bot"
         /\ dbMessages[j].content # getWelcomeMessage(env.initialContext))
        => \E k \in 1..Len(reqs) :
              /\ reqs[k].sid = dbMessages[j].session_id
              /\ reqs[k].reply = dbMessages[j].content
              /\ reqs[k].botInsert = "ok"

\* C27: on the page with the store, the reply of a message sent by the user
\* from a session is stored only in that session and is displayed only while
\* that session is the current one.
C27_ReplyStaysInItsSession ==
    page = "B" =>
        /\ RepliesStoredInOwnSession
        /\ \A k \in 1..Len(reqs) :
              (reqs[k].sid # 0 /\ ~reqs[k].auto /\ ReplyDisplayed(k))
              => currentSessionId = reqs[k].sid

\* resetUploadState has just run (a tab click or 'Upload Different File').
JustReset == lastOp.op \in {"tab", "reset"}

\* The dialog shows no extracted text and processes nothing.
IsReset == modalExtractedText = "" /\ ~isProcessing

\* C28: after resetUploadState the upload dialog stays reset until a new file
\* is selected: a step from a state that resetUploadState has just produced
\* leaves extractedText empty and isProcessing false, unless the step selects
\* a file.
C28_StaysResetUntilNewFile ==
    [][(JustReset /\ lastOp'.op # "select") => (IsReset /\ IsReset')]_vars

\* The loading placeholders of the transcript.
LoadingPlaceholders == {j \in 1..Len(messages) : messages[j].isLoading}

\* C29: in every state of a chat page the transcript holds no loading
\* placeholder while isLoading is false and exactly one while it is true.
C29_PlaceholderMatchesIsLoading ==
    page \in {"A", "B"} =>
        Cardinality(LoadingPlaceholders) = (IF isLoading THEN 1 ELSE 0)

\* The transcript is the welcome message of the page's context and nothing else.
WelcomeOnly(m) ==
    /\ Len(m) = 1
    /\ m[1].type = "bot"
    /\ m[1].content = getWelcomeMessage(env.initialContext)
    /\ ~m[1].isLoading

\* Operation i ends its createNewChatSession in this step: an awaited one, or
\* the one of a New Chat without a store, which ends with the click.
CreationCompletes(i) ==
    /\ ops'[i].pc = "done"
    /\ \/ i <= Len(ops) /\ Creating(i)
       \/ i > Len(ops) /\ ops'[i].kind = "new"

\* C30: when createNewChatSession completes (initial load, New Chat, or after
\* the current session was deleted), the displayed transcript is exactly the
\* welcome message of the context, with a configured store, without one, and
\* when the welcome message could not be inserted.
C30_CreationShowsWelcomeOnly ==
    [][\A i \in 1..Len(ops') : CreationCompletes(i) => WelcomeOnly(messages')]_vars

=============================================================================
